---------------------------- MODULE Spec2Model ----------------------------
(***************************************************************************)
(* Series-Q simulator core: the CPU interpreter (src/src/cpu.rs), the bus  *)
(* and its reference memory device, and the arbitration channel            *)
(* (src/src/bus.rs).                                                       *)
(*                                                                         *)
(* A u32 is the pair <<hi, lo>> of its 16-bit halves, so that 32-bit       *)
(* wrapping arithmetic is exact.  A u8 / u16 is an integer.                *)
(***************************************************************************)
EXTENDS Integers, Sequences, FiniteSets, TLC

VARIABLES
    sq,        \* the SeriesQ struct (registers, tables, atomics, attached bus)
    pcCpu,     \* position of the CPU thread inside SeriesQ::run
    skip,      \* run(): the one-shot skip latch
    iword0,    \* run(): first half-word of the instruction of this cycle
    iword1,    \* run(): second half-word
    ifetch,    \* run(): the fetch of this cycle succeeded
    chanIdx,   \* run(): index of the channel the service-DMA loop is at
    busOwner,  \* holder of the Mutex<Bus>
    brq,       \* per channel: the BRQ boolean
    bgr,       \* per channel: the BGR boolean
    rlock,     \* per channel: holder of the BRQ mutex
    glock,     \* per channel: holder of the BGR mutex
    perPc,     \* per channel: position of the peripheral thread in in_channel
    hist,      \* history of the handshake and of the current CPU cycle
    dev,       \* a Vec<u8> used as a Memory32 device on its own
    devCall,   \* the last Memory32 call made on dev, and its result
    hostBus,   \* a Bus the host attaches devices to and calls on its own
    busCall,   \* the Memory32 call made on hostBus, and its result
    stopReq,   \* the host's store of running = false: not made, or when
    aluCall    \* the last call of alu_add / alu_sub on its own, and its result

vars == <<sq, pcCpu, skip, iword0, iword1, ifetch, chanIdx, busOwner,
          brq, bgr, rlock, glock, perPc, hist, dev, devCall, hostBus,
          busCall, stopReq, aluCall>>

cpuVars == <<sq, pcCpu, skip, iword0, iword1, ifetch, chanIdx>>
chanVars == <<busOwner, brq, bgr, rlock, glock, perPc>>
memVars == <<dev, devCall, hostBus, busCall, stopReq, aluCall>>

-----------------------------------------------------------------------------
(* Bounds of the model *)

\* number of channels that have a peripheral thread attached
NumPeripherals == 2
\* the cycle counter is kept modulo this (it stands for 2^64)
CycleModulus == 4
\* the history counter of in_channel bodies per open() saturates here
MaxBodies == 3

-----------------------------------------------------------------------------
(* Program constants *)

PC == 15
LR == 14
PS == 7
LS == 6

\* fault codes, as the low byte of the i32 constant cast to u32
SUPERVISOR_ACCESS == 255
OUT_OF_BOUNDS == 254
ILLEGAL_INSTRUCTION == 253
SEGMENTATION_FAULT == 252
READ_FAULT == 251
WRITE_FAULT == 250

NumChannels == 16
NumLines == 8

-----------------------------------------------------------------------------
(* u32 arithmetic on <<hi, lo>> *)

H == 256 * 256

W(n) == <<n \div H, n % H>>

WZero == <<0, 0>>
WMax == <<H - 1, H - 1>>

\* wrapping_add
WAdd(a, b) ==
    LET lo == a[2] + b[2]
    IN  <<(a[1] + b[1] + (lo \div H)) % H, lo % H>>

\* wrapping_sub
WSub(a, b) ==
    LET lo == a[2] - b[2]
        borrow == IF lo < 0 THEN 1 ELSE 0
    IN  <<(a[1] - b[1] - borrow + H) % H, (lo + H) % H>>

WLt(a, b) == a[1] < b[1] \/ (a[1] = b[1] /\ a[2] < b[2])
WGe(a, b) == ~WLt(a, b)

\* (x >> 8k) & 0xFF
WByte(a, k) ==
    CASE k = 0 -> a[2] % 256
      [] k = 1 -> a[2] \div 256
      [] k = 2 -> a[1] % 256
      [] k = 3 -> a[1] \div 256

\* b0 | b1<<8 | b2<<16 | b3<<24
WBytes(b0, b1, b2, b3) == <<b3 * 256 + b2, b1 * 256 + b0>>

\* the value as an integer; only for values below 2^31
WInt(a) == a[1] * H + a[2]

-----------------------------------------------------------------------------
(* Memory32 for Vec<u8>: the reference memory device.  A device is the     *)
(* sequence of its bytes, byte i at position i + 1.  A result is           *)
(* [err, val, mem]: err = "Ok" or the BusError, mem the device afterwards. *)

Len32(mem) == W(Len(mem))

Res(err, val, mem) == [err |-> err, val |-> val, mem |-> mem]

At(mem, a, k) == mem[WInt(a) + k + 1]

Vec_read_b(mem, addr) ==
    IF WGe(addr, Len32(mem)) THEN Res("InvalidAddress", 0, mem)
    ELSE Res("Ok", At(mem, addr, 0), mem)

Vec_read_h(mem, addr) ==
    IF WGe(WAdd(addr, W(1)), Len32(mem)) THEN Res("InvalidAddress", 0, mem)
    ELSE IF addr[2] % 2 # 0 THEN Res("AlignmentCheck", 0, mem)
    ELSE Res("Ok", At(mem, addr, 1) * 256 + At(mem, addr, 0), mem)

\* the source composes (b3 << 3) + (b2 << 8) + (b1 << 8) + b0
Vec_read_w(mem, addr) ==
    IF WGe(WAdd(addr, W(3)), Len32(mem)) THEN Res("InvalidAddress", WZero, mem)
    ELSE IF addr[2] % 4 # 0 THEN Res("AlignmentCheck", WZero, mem)
    ELSE Res("Ok",
             W(At(mem, addr, 3) * 8 + At(mem, addr, 2) * 256
               + At(mem, addr, 1) * 256 + At(mem, addr, 0)),
             mem)

Vec_write_b(mem, addr, data) ==
    IF WGe(addr, Len32(mem)) THEN Res("InvalidAddress", 0, mem)
    ELSE Res("Ok", 0, [mem EXCEPT ![WInt(addr) + 1] = data])

\* a write_h that splits a misaligned access into two byte writes
Vec_write_h_Split(mem, addr, data) ==
    IF WGe(WAdd(addr, W(1)), Len32(mem)) THEN Res("InvalidAddress", 0, mem)
    ELSE Res("Ok", 0, [mem EXCEPT ![WInt(addr) + 2] = data \div 256,
                                  ![WInt(addr) + 1] = data % 256])

Vec_write_h(mem, addr, data) ==
    IF WGe(WAdd(addr, W(1)), Len32(mem)) THEN Res("InvalidAddress", 0, mem)
    ELSE IF addr[2] % 2 # 0 THEN Res("AlignmentCheck", 0, mem)
    ELSE Res("Ok", 0, [mem EXCEPT ![WInt(addr) + 2] = data \div 256,
                                  ![WInt(addr) + 1] = data % 256])

\* a write_w that stores the most significant byte at the lowest address
Vec_write_w_BigEndian(mem, addr, data) ==
    IF WGe(WAdd(addr, W(3)), Len32(mem)) THEN Res("InvalidAddress", 0, mem)
    ELSE IF addr[2] % 4 # 0 THEN Res("AlignmentCheck", 0, mem)
    ELSE Res("Ok", 0, [mem EXCEPT ![WInt(addr) + 4] = WByte(data, 0),
                                  ![WInt(addr) + 3] = WByte(data, 1),
                                  ![WInt(addr) + 2] = WByte(data, 2),
                                  ![WInt(addr) + 1] = WByte(data, 3)])

Vec_write_w(mem, addr, data) ==
    IF WGe(WAdd(addr, W(3)), Len32(mem)) THEN Res("InvalidAddress", 0, mem)
    ELSE IF addr[2] % 4 # 0 THEN Res("AlignmentCheck", 0, mem)
    ELSE Res("Ok", 0, [mem EXCEPT ![WInt(addr) + 4] = WByte(data, 3),
                                  ![WInt(addr) + 3] = WByte(data, 2),
                                  ![WInt(addr) + 2] = WByte(data, 1),
                                  ![WInt(addr) + 1] = WByte(data, 0)])

\* instruction fetch: two consecutive bytes composed big-endian
Vec_read_h_big(mem, addr) ==
    IF WGe(WAdd(addr, W(1)), Len32(mem)) THEN Res("InvalidAddress", 0, mem)
    ELSE Res("Ok", At(mem, addr, 0) * 256 + At(mem, addr, 1), mem)

-----------------------------------------------------------------------------
(* Bus: base, size and region are parallel sequences (attach appends).     *)
(* A bus result is [err, val, bus].                                        *)

BRes(err, val, bus) == [err |-> err, val |-> val, bus |-> bus]

InRange(bus, n, addr) ==
    /\ WGe(addr, bus.base[n])
    /\ WLt(addr, WAdd(bus.base[n], bus.size[n]))

\* index of the first attached range holding addr, 0 when there is none
Bus_find(bus, addr) ==
    LET hits == {n \in 1..Len(bus.base) : InRange(bus, n, addr)}
    IN  IF hits = {} THEN 0
        ELSE CHOOSE n \in hits : \A k \in hits : n <= k

Bus_attach(bus, base, size, region) ==
    [base |-> Append(bus.base, base),
     size |-> Append(bus.size, size),
     region |-> Append(bus.region, region)]

Fwd(bus, n, r) ==
    CHOOSE b \in {BRes(v.err, v.val, [bus EXCEPT !.region[n] = v.mem]) : v \in {r}} :
        TRUE

Bus_read_b(bus, addr) ==
    LET n == Bus_find(bus, addr)
    IN  IF n = 0 THEN BRes("InvalidAddress", 0, bus)
        ELSE Fwd(bus, n, Vec_read_b(bus.region[n], WSub(addr, bus.base[n])))

Bus_read_h(bus, addr) ==
    LET n == Bus_find(bus, addr)
    IN  IF n = 0 THEN BRes("InvalidAddress", 0, bus)
        ELSE Fwd(bus, n, Vec_read_h(bus.region[n], WSub(addr, bus.base[n])))

Bus_read_w(bus, addr) ==
    LET n == Bus_find(bus, addr)
    IN  IF n = 0 THEN BRes("InvalidAddress", WZero, bus)
        ELSE Fwd(bus, n, Vec_read_w(bus.region[n], WSub(addr, bus.base[n])))

Bus_write_b(bus, addr, data) ==
    LET n == Bus_find(bus, addr)
    IN  IF n = 0 THEN BRes("InvalidAddress", 0, bus)
        ELSE Fwd(bus, n, Vec_write_b(bus.region[n], WSub(addr, bus.base[n]), data))

Bus_write_h(bus, addr, data) ==
    LET n == Bus_find(bus, addr)
    IN  IF n = 0 THEN BRes("InvalidAddress", 0, bus)
        ELSE Fwd(bus, n, Vec_write_h(bus.region[n], WSub(addr, bus.base[n]), data))

Bus_write_w(bus, addr, data) ==
    LET n == Bus_find(bus, addr)
    IN  IF n = 0 THEN BRes("InvalidAddress", 0, bus)
        ELSE Fwd(bus, n, Vec_write_w(bus.region[n], WSub(addr, bus.base[n]), data))

Bus_read_h_big(bus, addr) ==
    LET n == Bus_find(bus, addr)
    IN  IF n = 0 THEN BRes("InvalidAddress", 0, bus)
        ELSE Fwd(bus, n, Vec_read_h_big(bus.region[n], WSub(addr, bus.base[n])))

-----------------------------------------------------------------------------
(* Bit fields of a u8 *)

Bit(x, k) == (x \div (2 ^ k)) % 2

\* F[8] bit 0: application state
AppState(s) == s.F[8] % 2 # 0
\* (F[8] & 0xE) >> 1: current priority level
CurLevel(s) == (s.F[8] \div 2) % 8
\* (F[8] & 0x70) >> 4: fault priority level
FaultLevel(s) == (s.F[8] \div 16) % 8

RECURSIVE BitAnd(_, _)
BitAnd(x, y) ==
    IF x = 0 \/ y = 0 THEN 0
    ELSE (x % 2) * (y % 2) + 2 * BitAnd(x \div 2, y \div 2)

-----------------------------------------------------------------------------
(* instruction decode *)

rr_reg_d(iword) == (iword \div 16) % 16
rr_reg_r(iword) == iword % 16
rm_seg_s(iword) == iword \div 4096
rmx_reg_x(iword) == (iword \div 256) % 16
rmx_idx_i(iword) == iword % 256

increment(iword) ==
    IF (iword \div 16384) % 4 = 1 \/ (iword \div 16384) % 4 = 3 THEN 4 ELSE 2

Opcode(iword) == iword \div 256

-----------------------------------------------------------------------------
(* The CPU's bus accesses.  Each returns [err, val, s]; s.trace.busOps     *)
(* counts the accesses of the current cycle.                               *)

CRes(r, s) ==
    CHOOSE c \in {[err |-> v.err, val |-> v.val,
                   s |-> [s EXCEPT !.bus = v.bus, !.trace.busOps = @ + 1]] :
                  v \in {r}} : TRUE

Cpu_read_b(s, addr) == CRes(Bus_read_b(s.bus, addr), s)
Cpu_read_h(s, addr) == CRes(Bus_read_h(s.bus, addr), s)
Cpu_read_w(s, addr) == CRes(Bus_read_w(s.bus, addr), s)
Cpu_read_h_big(s, addr) == CRes(Bus_read_h_big(s.bus, addr), s)
Cpu_write_b(s, addr, data) == CRes(Bus_write_b(s.bus, addr, data), s)
Cpu_write_h(s, addr, data) == CRes(Bus_write_h(s.bus, addr, data), s)
Cpu_write_w(s, addr, data) == CRes(Bus_write_w(s.bus, addr, data), s)

-----------------------------------------------------------------------------
(* SQAddr: address generation and the access check *)

gen_offset_rm(s, reg_segment, reg_base, index) ==
    LET idx == index % 4096
        offset == IF idx > 2047 /\ s.S_flags[reg_segment] % 2 = 0
                  THEN <<H - 1, 61440 + idx>>      \* idx | 0xFFFFF000
                  ELSE W(idx)
    IN  WAdd(s.R[reg_base], offset)

gen_offset_rmx(s, reg_segment, reg_base, reg_offset, index) ==
    WAdd(s.R[reg_base], WAdd(s.R[reg_offset], W(index)))

gen_addr_rm(s, reg_segment, reg_base, index) ==
    WAdd(s.S_base[reg_segment], gen_offset_rm(s, reg_segment, reg_base, index % 4096))

gen_addr_rmx(s, reg_segment, reg_base, reg_offset, index) ==
    WAdd(s.S_base[reg_segment],
         gen_offset_rmx(s, reg_segment, reg_base, reg_offset, index))

\* an access check that leaves out the comparison with S_limit
access_check_NoLimit(s, segment, addr, write, exec) ==
    LET segment_check ==
            /\ (\E k \in 0..15 : s.MPK[k] = s.S_key[segment]) \/ s.F[8] % 2 = 0
            /\ WGe(addr, s.S_base[segment])
        allowed == Bit(s.S_flags[segment], IF write THEN 6 ELSE IF exec THEN 5 ELSE 7) # 0
    IN  IF s.F[8] % 2 # 0 THEN segment_check /\ allowed ELSE segment_check

\* an access check that tests the permission bits in supervisor state too
access_check_SupervisorPerms(s, segment, addr, write, exec) ==
    /\ (\E k \in 0..15 : s.MPK[k] = s.S_key[segment]) \/ s.F[8] % 2 = 0
    /\ WGe(addr, s.S_base[segment])
    /\ WLt(addr, s.S_limit[segment])
    /\ Bit(s.S_flags[segment], IF write THEN 6 ELSE IF exec THEN 5 ELSE 7) # 0

access_check(s, segment, addr, write, exec) ==
    LET segment_check ==
            /\ (\E k \in 0..15 : s.MPK[k] = s.S_key[segment]) \/ s.F[8] % 2 = 0
            /\ WGe(addr, s.S_base[segment])
            /\ WLt(addr, s.S_limit[segment])
        read_allowed == Bit(s.S_flags[segment], 7) # 0
        write_allowed == Bit(s.S_flags[segment], 6) # 0
        exec_allowed == Bit(s.S_flags[segment], 5) # 0
    IN  IF s.F[8] % 2 # 0
        THEN IF write THEN segment_check /\ write_allowed
             ELSE IF exec THEN segment_check /\ exec_allowed
             ELSE segment_check /\ read_allowed
        ELSE segment_check

-----------------------------------------------------------------------------
(* Faults.  error_code is the low byte of the u32 code, the only part the  *)
(* source uses.  s.trace.faults lists the faults raised in this cycle.     *)

copy_segment(s, dest, src) ==
    [s EXCEPT !.S_selector[dest] = s.S_selector[src],
              !.S_base[dest] = s.S_base[src],
              !.S_limit[dest] = s.S_limit[src],
              !.S_key[dest] = s.S_key[src],
              !.S_flags[dest] = s.S_flags[src]]

\* what the trace keeps of a fault: its kind and code, F[8] and the priority
\* level it was raised at, and how many pl_set calls the cycle had made
\* before it
FaultEntry(s, kind, error_code) ==
    [kind |-> kind, code |-> error_code, level |-> CurLevel(s), f8 |-> s.F[8],
     ps_selector |-> s.S_selector[PS], after |-> Len(s.trace.plsets)]

\* a system fault that signals line 7 at every level and never halts
sys_fault_NeverHalts(s, iw0, error_code) ==
    [s EXCEPT !.F[10] = iw0 % 256,
              !.F[11] = iw0 \div 256,
              !.trace.faults = Append(@, FaultEntry(s, "sys", error_code)),
              !.ipl[7] = TRUE,
              !.icode[7] = error_code]

sys_fault(s, iw0, error_code) ==
    LET s1 == [s EXCEPT !.F[10] = iw0 % 256,
                        !.F[11] = iw0 \div 256,
                        !.trace.faults = Append(@, FaultEntry(s, "sys", error_code))]
    IN  IF CurLevel(s1) = 7
        THEN [s1 EXCEPT !.running = FALSE]
        ELSE [s1 EXCEPT !.ipl[7] = TRUE, !.icode[7] = error_code]

\* an application fault that signals the line of the current priority level
app_fault_CurrentLevelLine(s, iw0, error_code) ==
    IF s.F[8] % 2 = 0
    THEN sys_fault(s, iw0, error_code)
    ELSE LET new_pl == CurLevel(s)
             s1 == [s EXCEPT !.S_selector[PS] = error_code,
                             !.F[10] = iw0 % 256,
                             !.F[11] = iw0 \div 256,
                             !.running = FALSE,
                             !.trace.faults = Append(@, FaultEntry(s, "app", error_code))]
         IN  IF CurLevel(s1) = 7
             THEN [s1 EXCEPT !.running = FALSE]
             ELSE [s1 EXCEPT !.ipl[new_pl] = TRUE, !.icode[new_pl] = error_code]

app_fault(s, iw0, error_code) ==
    IF s.F[8] % 2 = 0
    THEN sys_fault(s, iw0, error_code)
    ELSE LET new_pl == FaultLevel(s)
             s1 == [s EXCEPT !.S_selector[PS] = error_code,
                             !.F[10] = iw0 % 256,
                             !.F[11] = iw0 \div 256,
                             !.running = FALSE,
                             !.trace.faults = Append(@, FaultEntry(s, "app", error_code))]
         IN  IF CurLevel(s1) = 7
             THEN [s1 EXCEPT !.running = FALSE]
             ELSE [s1 EXCEPT !.ipl[new_pl] = TRUE, !.icode[new_pl] = error_code]

SetFaultAddr(s, addr) ==
    [s EXCEPT !.F[12] = WByte(addr, 0), !.F[13] = WByte(addr, 1),
              !.F[14] = WByte(addr, 2), !.F[15] = WByte(addr, 3)]

read_fault(s, iw0, addr) == app_fault(SetFaultAddr(s, addr), iw0, READ_FAULT)
write_fault(s, iw0, addr) == app_fault(SetFaultAddr(s, addr), iw0, WRITE_FAULT)
seg_fault(s, iw0, addr) == app_fault(SetFaultAddr(s, addr), iw0, SEGMENTATION_FAULT)

-----------------------------------------------------------------------------
(* The priority-level engine *)

\* the four link-block writes of pl_set; [ok, s]
pl_set_link(s, new_priority, words) ==
    LET link_block_offset == WAdd(s.PLBA_base, W(16 * new_priority))
        a(k) == WAdd(link_block_offset, W(4 * k))
        w0 == Cpu_write_w(s, a(0), words[1])
        w1 == Cpu_write_w(w0.s, a(1), words[2])
        w2 == Cpu_write_w(w1.s, a(2), words[3])
        w3 == Cpu_write_w(w2.s, a(3), words[4])
    IN  IF w0.err # "Ok" THEN [ok |-> FALSE, s |-> write_fault(w0.s, 65535, a(0))]
        ELSE IF w1.err # "Ok" THEN [ok |-> FALSE, s |-> write_fault(w1.s, 65535, a(1))]
        ELSE IF w2.err # "Ok" THEN [ok |-> FALSE, s |-> write_fault(w2.s, 65535, a(2))]
        ELSE IF w3.err # "Ok" THEN [ok |-> FALSE, s |-> write_fault(w3.s, 65535, a(3))]
        ELSE [ok |-> TRUE, s |-> w3.s]

\* the four entry-block reads of pl_set
pl_set_entry(s, new_priority, ssr7) ==
    LET entry_block_offset == WAdd(s.PEBA_base, W(16 * new_priority))
        a(k) == WAdd(entry_block_offset, W(4 * k))
        r0 == Cpu_read_w(s, a(0))
        s0 == [r0.s EXCEPT !.S_base[PS] = r0.val]
        r1 == Cpu_read_w(s0, a(1))
        s1 == [r1.s EXCEPT !.S_limit[PS] = r1.val]
        r2 == Cpu_read_w(s1, a(2))
        f8 == WByte(r2.val, 2)
        s2 == [r2.s EXCEPT !.S_key[PS] = WByte(r2.val, 0),
                           !.S_flags[PS] = WByte(r2.val, 1),
                           !.F[8] = f8 - 2 * ((f8 \div 2) % 8) + 2 * new_priority,
                           !.S_selector[PS] = ssr7]
        r3 == Cpu_read_w(s2, a(3))
    IN  IF r0.err # "Ok" THEN read_fault(r0.s, 65535, a(0))
        ELSE IF r1.err # "Ok" THEN read_fault(r1.s, 65535, a(1))
        ELSE IF r2.err # "Ok" THEN read_fault(r2.s, 65535, a(2))
        ELSE IF r3.err # "Ok" THEN read_fault(r3.s, 65535, a(3))
        ELSE [r3.s EXCEPT !.R[PC] = r3.val]

pl_set(s, pl, ssr7) ==
    LET new_priority == pl % 8
        old_lba2 == WBytes(s.S_key[PS], s.S_flags[PS], s.F[8], s.S_selector[PS])
        st == [s EXCEPT !.trace.plsets = Append(@, <<new_priority, ssr7>>)]
        wr == pl_set_link(st, new_priority,
                          <<s.S_base[PS], s.S_limit[PS], old_lba2, s.R[PC]>>)
    IN  IF ~wr.ok THEN wr.s
        ELSE pl_set_entry(wr.s, new_priority, ssr7)

\* an escalation that also accepts a line at the current priority level
pl_esc_AtOrAbove(s, pl, ssr7) ==
    LET new_priority == pl % 8
        old_priority == CurLevel(s)
    IN  IF new_priority >= old_priority
        THEN [taken |-> TRUE, s |-> pl_set(s, new_priority, ssr7)]
        ELSE [taken |-> FALSE, s |-> s]

\* [taken, s]
pl_esc(s, pl, ssr7) ==
    LET new_priority == pl % 8
        old_priority == CurLevel(s)
    IN  IF new_priority > old_priority
        THEN [taken |-> TRUE, s |-> pl_set(s, new_priority, ssr7)]
        ELSE [taken |-> FALSE, s |-> s]

pl_retn(s) ==
    LET link_block_offset == WAdd(s.PLBA_base, W(16 * CurLevel(s)))
        a(k) == WAdd(link_block_offset, W(4 * k))
        r0 == Cpu_read_w(s, a(0))
        s0 == [r0.s EXCEPT !.S_base[PS] = r0.val]
        r1 == Cpu_read_w(s0, a(1))
        s1 == [r1.s EXCEPT !.S_limit[PS] = r1.val]
        r2 == Cpu_read_w(s1, a(2))
        s2 == [r2.s EXCEPT !.S_key[PS] = WByte(r2.val, 0),
                           !.S_flags[PS] = WByte(r2.val, 1),
                           !.F[8] = WByte(r2.val, 2),
                           !.S_selector[PS] = WByte(r2.val, 3)]
        r3 == Cpu_read_w(s2, a(3))
    IN  IF r0.err # "Ok" THEN read_fault(r0.s, 65535, a(0))
        ELSE IF r1.err # "Ok" THEN read_fault(r1.s, 65535, a(1))
        ELSE IF r2.err # "Ok" THEN read_fault(r2.s, 65535, a(2))
        ELSE IF r3.err # "Ok" THEN read_fault(r3.s, 65535, a(3))
        ELSE [r3.s EXCEPT !.R[PC] = r3.val]

-----------------------------------------------------------------------------
(* ALU *)

RECURSIVE BitXor(_, _)
BitXor(x, y) ==
    IF x = 0 THEN y
    ELSE IF y = 0 THEN x
    ELSE ((x + y) % 2) + 2 * BitXor(x \div 2, y \div 2)

BitOr(x, y) == x + y - BitAnd(x, y)

WAnd(a, b) == <<BitAnd(a[1], b[1]), BitAnd(a[2], b[2])>>
WOr(a, b) == <<BitOr(a[1], b[1]), BitOr(a[2], b[2])>>
WXor(a, b) == <<BitXor(a[1], b[1]), BitXor(a[2], b[2])>>
WNot(a) == <<H - 1 - a[1], H - 1 - a[2]>>

WBit(a, k) == IF k < 16 THEN Bit(a[2], k) ELSE Bit(a[1], k - 16)

sign_u32(x) == x[1] >= 32768

\* (a as i32) < (b as i32)
SLt(a, b) == IF sign_u32(a) # sign_u32(b) THEN sign_u32(a) ELSE WLt(a, b)

SetBit(x, k, b) == x - Bit(x, k) * (2 ^ k) + b * (2 ^ k)

\* x << k and x >> k on 32 bits, 0 <= k <= 31
WShl(a, k) ==
    IF k >= 16 THEN <<(a[2] * (2 ^ (k - 16))) % H, 0>>
    ELSE <<(((a[1] * (2 ^ k)) % H) + (a[2] \div (2 ^ (16 - k)))) % H,
           (a[2] * (2 ^ k)) % H>>

WShr(a, k) ==
    IF k >= 16 THEN <<0, a[1] \div (2 ^ (k - 16))>>
    ELSE <<a[1] \div (2 ^ k),
           (a[2] \div (2 ^ k)) + ((a[1] % (2 ^ k)) * (2 ^ (16 - k)))>>

\* the bits shifted in from the left by an arithmetic right shift by k
SignFill(k) == WShl(WMax, 32 - k)

ShiftFlags(flags, y, carry) == SetBit(SetBit(flags, 7, y[2] % 2), 2, carry)

alu_shl(dest, src, flags) ==
    LET k == src[2] % 32
        y == WShl(dest, k)
        carry == IF k = 0 THEN 0 ELSE WBit(dest, 32 - k)
    IN  <<y, ShiftFlags(flags, y, carry)>>

alu_shr(dest, src, flags) ==
    LET k == src[2] % 32
        y == WShr(dest, k)
        carry == IF k = 0 THEN 0 ELSE WBit(dest, k - 1)
    IN  <<y, ShiftFlags(flags, y, carry)>>

\* dest as i64 is the zero extension of the u32
alu_sal(dest, src, flags) ==
    LET k == src[2] % 32
        y == WShl(dest, k)
        carry == IF k = 0 THEN 0 ELSE WBit(dest, 32 - k)
    IN  <<y, ShiftFlags(flags, y, carry)>>

\* (dest as i64) << 32 is non-negative below 2^63 only when bit 31 is clear
alu_sar(dest, src, flags) ==
    LET k == src[2] % 32
        y == IF sign_u32(dest) /\ k > 0 THEN WOr(WShr(dest, k), SignFill(k))
             ELSE WShr(dest, k)
        carry == IF k = 0 THEN 0 ELSE WBit(dest, k - 1)
    IN  <<y, ShiftFlags(flags, y, carry)>>

B2N(b) == IF b THEN 1 ELSE 0

\* the flag byte PLGEVCSB that alu_add and alu_sub assemble
CmpFlags(dest, src, y, overflow, carry) ==
      128 * (y[2] % 2)
    + 64 * B2N(WLt(src, dest))
    + 32 * B2N(WLt(dest, src))
    + 16 * B2N(src = dest)
    + 8 * B2N(overflow)
    + 4 * B2N(carry)
    + 2 * B2N(SLt(src, dest))
    + B2N(SLt(dest, src))

alu_add(dest, src, flags, use_carry) ==
    LET y0 == WAdd(dest, src)
        carry0 == WLt(y0, dest)
        cin == Bit(flags, 2) # 0 /\ use_carry
        y == IF cin THEN WAdd(y0, W(1)) ELSE y0
        carry == IF cin THEN carry0 /\ (y0 = WMax) ELSE carry0
        overflow == \/ sign_u32(src) /\ sign_u32(dest) /\ ~sign_u32(y)
                    \/ ~sign_u32(src) /\ ~sign_u32(dest) /\ sign_u32(y)
    IN  <<y, CmpFlags(dest, src, y, overflow, carry)>>

alu_sub(dest, src, flags, use_carry) ==
    LET y0 == WSub(dest, src)
        carry0 == WLt(dest, src)
        cin == Bit(flags, 2) # 0 /\ use_carry
        y == IF cin THEN WSub(y0, W(1)) ELSE y0
        carry == IF cin THEN carry0 /\ (y0 = WZero) ELSE carry0
        overflow == \/ sign_u32(src) /\ ~sign_u32(dest) /\ sign_u32(y)
                    \/ ~sign_u32(src) /\ sign_u32(dest) /\ ~sign_u32(y)
    IN  <<y, CmpFlags(dest, src, y, overflow, carry)>>

-----------------------------------------------------------------------------
(* Execute: the match on the opcode in SeriesQ::run.  Each returns the     *)
(* SeriesQ afterwards.                                                     *)

SetR(s, d, v) == [s EXCEPT !.R[d] = v]

\* an ALU instruction: R[d] and F[0] from the pair the ALU returns
AluTo(s, d, res) == [s EXCEPT !.R[d] = res[1], !.F[0] = res[2]]

\* the value a load writes to R[d], from the byte, half or word read
LoadValue(kind, old, x) ==
    CASE kind = "L" -> x
      [] kind = "BTR" -> <<0, x>>
      [] kind = "HTR" -> <<0, x>>
      [] kind = "BSF" -> IF Bit(x, 7) # 0 THEN <<H - 1, 65280 + x>> ELSE <<0, x>>
      [] kind = "HSF" -> IF Bit(x, 15) # 0 THEN <<H - 1, x>> ELSE <<0, x>>
      [] kind = "BNS" -> <<old[1], (old[2] \div 256) * 256 + x>>
      [] kind = "HNS" -> <<old[1], x>>

LoadRead(s, kind, addr) ==
    CASE kind = "L" -> Cpu_read_w(s, addr)
      [] kind \in {"BTR", "BSF", "BNS"} -> Cpu_read_b(s, addr)
      [] kind \in {"HTR", "HSF", "HNS"} -> Cpu_read_h(s, addr)

\* a load that clears its destination register when the bus read fails
ExecLoad_ClearsOnFault(s, iw0, seg, addr, kind) ==
    IF access_check(s, seg, addr, FALSE, FALSE)
    THEN LET r == LoadRead(s, kind, addr)
             d == rr_reg_d(iw0)
         IN  IF r.err # "Ok" THEN read_fault(SetR(r.s, d, WZero), iw0, addr)
             ELSE SetR(r.s, d, LoadValue(kind, r.s.R[d], r.val))
    ELSE seg_fault(s, iw0, addr)

ExecLoad(s, iw0, seg, addr, kind) ==
    IF access_check(s, seg, addr, FALSE, FALSE)
    THEN LET r == LoadRead(s, kind, addr)
             d == rr_reg_d(iw0)
         IN  IF r.err # "Ok" THEN read_fault(r.s, iw0, addr)
             ELSE SetR(r.s, d, LoadValue(kind, r.s.R[d], r.val))
    ELSE seg_fault(s, iw0, addr)

StoreWrite(s, kind, addr, v) ==
    CASE kind = "ST" -> Cpu_write_w(s, addr, v)
      [] kind = "BST" -> Cpu_write_b(s, addr, v[2] % 256)
      [] kind = "HST" -> Cpu_write_h(s, addr, v[2])

ExecStore(s, iw0, seg, addr, kind) ==
    IF access_check(s, seg, addr, TRUE, FALSE)
    THEN LET r == StoreWrite(s, kind, addr, s.R[rr_reg_d(iw0)])
         IN  IF r.err # "Ok" THEN write_fault(r.s, iw0, addr) ELSE r.s
    ELSE seg_fault(s, iw0, addr)

\* BAL: offset(t) is gen_offset_rm / gen_offset_rmx evaluated in state t
BalLink(s, iw0) ==
    IF rr_reg_d(iw0) # 0
    THEN SetR(copy_segment(s, LS, PS), rr_reg_d(iw0), s.R[PC])
    ELSE s

\* the four descriptor reads of SSEL / SSELHC into segment register d
LoadDescriptor(s, iw0, d, sel) ==
    LET a(k) == WAdd(s.SDTR_base, W(12 * sel + k))
        s0 == [s EXCEPT !.S_selector[d] = sel]
        r0 == Cpu_read_w(s0, a(0))
        s1 == [r0.s EXCEPT !.S_base[d] = r0.val]
        r1 == Cpu_read_w(s1, a(4))
        s2 == [r1.s EXCEPT !.S_limit[d] = r1.val]
        r2 == Cpu_read_b(s2, a(8))
        s3 == [r2.s EXCEPT !.S_key[d] = r2.val]
        r3 == Cpu_read_b(s3, a(9))
    IN  IF r0.err # "Ok" THEN read_fault(r0.s, iw0, a(0))
        ELSE IF r1.err # "Ok" THEN read_fault(r1.s, iw0, a(4))
        ELSE IF r2.err # "Ok" THEN read_fault(r2.s, iw0, a(8))
        ELSE IF r3.err # "Ok" THEN read_fault(r3.s, iw0, a(9))
        ELSE [r3.s EXCEPT !.S_flags[d] = r3.val]

ExecSF(s, iw0) ==
    IF AppState(s) /\ rr_reg_r(iw0) >= 8
    THEN app_fault(s, iw0, SUPERVISOR_ACCESS)
    ELSE [s EXCEPT !.F[rr_reg_d(iw0)] = s.R[rr_reg_r(iw0)][2] % 256]

ExecLSDTR(s, iw0) ==
    IF AppState(s)
    THEN app_fault(s, iw0, SUPERVISOR_ACCESS)
    ELSE SetR(SetR(s, rr_reg_r(iw0), <<0, s.SDTR_len>>), rr_reg_d(iw0), s.SDTR_base)

ExecSSDTR(s, iw0) ==
    LET s1 == IF AppState(s)
              THEN app_fault(s, iw0, SUPERVISOR_ACCESS)
              ELSE [s EXCEPT !.SDTR_len = s.R[rr_reg_r(iw0)][2] % 256,
                             !.SDTR_base = s.R[rr_reg_d(iw0)]]
        a0 == s1.SDTR_base
        r0 == Cpu_read_w(s1, a0)
        s2 == [r0.s EXCEPT !.PEBA_base = r0.val]
        a1 == WAdd(s2.SDTR_base, W(12))
        r1 == Cpu_read_w(s2, a1)
    IN  IF r0.err # "Ok" THEN read_fault(r0.s, iw0, a0)
        ELSE IF r1.err # "Ok" THEN read_fault(r1.s, iw0, a1)
        ELSE [r1.s EXCEPT !.PLBA_base = r1.val]

ExecSSEL(s, iw0) ==
    LET sel == s.R[rr_reg_r(iw0)][2] % 256
    IN  IF AppState(s) /\ rr_reg_d(iw0) >= 8
        THEN app_fault(s, iw0, SUPERVISOR_ACCESS)
        ELSE IF sel > s.SDTR_len
        THEN app_fault(s, iw0, OUT_OF_BOUNDS)
        ELSE LoadDescriptor(s, iw0, rr_reg_d(iw0), sel)

ExecSSELHC(s, iw0) ==
    LET sel == rr_reg_r(iw0)
    IN  IF AppState(s) /\ rr_reg_d(iw0) >= 8
        THEN app_fault(s, iw0, SUPERVISOR_ACCESS)
        ELSE IF sel > s.SDTR_len
        THEN app_fault(s, iw0, OUT_OF_BOUNDS)
        ELSE LoadDescriptor(s, iw0, rr_reg_d(iw0), sel)

\* CSEL that tests the source index, as SF does, instead of the destination
ExecCSEL_SourceGuard(s, iw0) ==
    IF AppState(s) /\ rr_reg_r(iw0) >= 8
    THEN app_fault(s, iw0, SUPERVISOR_ACCESS)
    ELSE copy_segment(s, rr_reg_d(iw0), rr_reg_r(iw0))

ExecCSEL(s, iw0) ==
    IF AppState(s) /\ rr_reg_d(iw0) >= 8
    THEN app_fault(s, iw0, SUPERVISOR_ACCESS)
    ELSE copy_segment(s, rr_reg_d(iw0), rr_reg_r(iw0))

ExecLMPK(s, iw0) ==
    IF AppState(s)
    THEN app_fault(s, iw0, SUPERVISOR_ACCESS)
    ELSE SetR(s, rr_reg_d(iw0), <<0, s.MPK[rr_reg_r(iw0)]>>)

ExecSMPK(s, iw0) ==
    IF AppState(s)
    THEN app_fault(s, iw0, SUPERVISOR_ACCESS)
    ELSE [s EXCEPT !.MPK[rr_reg_d(iw0)] = s.R[rr_reg_r(iw0)][2] % 256]

ExecBAL_RMX(s, iw0, iw1) ==
    LET s1 == BalLink(s, iw0)
        s2 == copy_segment(s1, PS, rm_seg_s(iw1))
    IN  SetR(s2, PC, gen_offset_rmx(s2, rm_seg_s(iw1), rr_reg_r(iw0),
                                    rmx_reg_x(iw1), rmx_idx_i(iw1)))

ExecBAL_RM(s, iw0, iw1) ==
    LET s1 == BalLink(s, iw0)
        s2 == copy_segment(s1, PS, rm_seg_s(iw1))
    IN  SetR(s2, PC, gen_offset_rm(s2, rm_seg_s(iw1), rr_reg_r(iw0), iw1))

\* the register-register family, opcodes 0x00 .. 0x2B
ExecRR(s, iw0) ==
    LET op == Opcode(iw0)
        d == rr_reg_d(iw0)
        r == rr_reg_r(iw0)
        Rd == s.R[d]
        Rr == s.R[r]
        q == <<0, r>>
        f == s.F[0]
    IN  CASE op = 0 -> SetR(s, d, Rr)
          [] op = 1 -> SetR(s, d, q)
          [] op = 2 -> SetR(s, d, <<0, Rr[2] % 256>>)
          [] op = 3 -> SetR(s, d, <<0, Rr[2]>>)
          [] op = 4 -> SetR(s, d, LoadValue("BSF", Rd, Rr[2] % 256))
          [] op = 5 -> SetR(s, d, LoadValue("HSF", Rd, Rr[2]))
          [] op = 6 -> SetR(s, d, LoadValue("BNS", Rd, Rr[2] % 256))
          [] op = 7 -> SetR(s, d, LoadValue("HNS", Rd, Rr[2]))
          [] op = 8 -> AluTo(s, d, alu_add(Rd, Rr, f, FALSE))
          [] op = 9 -> AluTo(s, d, alu_add(Rd, Rr, f, TRUE))
          [] op = 10 -> AluTo(s, d, alu_sub(Rd, Rr, f, FALSE))
          [] op = 11 -> AluTo(s, d, alu_sub(Rd, Rr, f, TRUE))
          [] op = 12 -> AluTo(s, d, alu_add(Rd, q, f, FALSE))
          [] op = 13 -> AluTo(s, d, alu_add(Rd, q, f, TRUE))
          [] op = 14 -> AluTo(s, d, alu_sub(Rd, q, f, FALSE))
          [] op = 15 -> AluTo(s, d, alu_sub(Rd, q, f, TRUE))
          [] op = 16 -> SetR(s, d, WAnd(Rd, Rr))
          [] op = 17 -> SetR(s, d, WOr(Rd, Rr))
          [] op = 18 -> SetR(s, d, WXor(Rd, Rr))
          [] op = 19 -> SetR(s, d, WNot(WXor(Rd, Rr)))
          [] op = 20 -> SetR(s, d, WAnd(Rd, q))
          [] op = 21 -> SetR(s, d, WOr(Rd, q))
          [] op = 22 -> SetR(s, d, WXor(Rd, q))
          [] op = 23 -> SetR(s, d, WNot(WXor(Rd, q)))
          [] op = 24 -> AluTo(s, d, alu_shl(Rd, Rr, f))
          [] op = 25 -> AluTo(s, d, alu_shr(Rd, Rr, f))
          [] op = 26 -> AluTo(s, d, alu_sal(Rd, Rr, f))
          [] op = 27 -> AluTo(s, d, alu_sar(Rd, Rr, f))
          [] op = 28 -> AluTo(s, d, alu_shl(Rd, <<0, r + 1>>, f))
          [] op = 29 -> AluTo(s, d, alu_shr(Rd, <<0, r + 1>>, f))
          [] op = 30 -> AluTo(s, d, alu_shl(Rd, <<0, r + 16>>, f))
          [] op = 31 -> AluTo(s, d, alu_shr(Rd, <<0, r + 16>>, f))
          [] op = 32 -> [s EXCEPT !.F[0] = alu_sub(Rd, Rr, f, FALSE)[2]]
          [] op = 34 -> SetR(s, d, <<0, s.F[r]>>)
          [] op = 35 -> ExecSF(s, iw0)
          [] op = 36 -> ExecLSDTR(s, iw0)
          [] op = 37 -> ExecSSDTR(s, iw0)
          [] op = 38 -> SetR(s, d, <<0, s.S_selector[r]>>)
          [] op = 39 -> ExecSSEL(s, iw0)
          [] op = 40 -> ExecLMPK(s, iw0)
          [] op = 41 -> ExecSMPK(s, iw0)
          [] op = 42 -> ExecCSEL(s, iw0)
          [] op = 43 -> ExecSSELHC(s, iw0)

LoadKind(n) ==
    CASE n = 0 -> "L" [] n = 2 -> "BTR" [] n = 3 -> "HTR" [] n = 4 -> "BSF"
      [] n = 5 -> "HSF" [] n = 6 -> "BNS" [] n = 7 -> "HNS"

StoreKind(n) == CASE n = 8 -> "ST" [] n = 9 -> "BST" [] n = 10 -> "HST"

RROpcodes == (0..32) \cup (34..43)
LoadOps == {0, 2, 3, 4, 5, 6, 7}
StoreOps == {8, 9, 10}

\* [s, skip]: the machine after the execute step and the skip latch it sets
Execute(s, iw0, iw1) ==
    LET op == Opcode(iw0)
        seg == rm_seg_s(iw1)
        rmx == gen_addr_rmx(s, seg, rr_reg_r(iw0), rmx_reg_x(iw1), rmx_idx_i(iw1))
        rm == gen_addr_rm(s, seg, rr_reg_r(iw0), iw1)
        Plain(t) == [s |-> t, skip |-> FALSE]
    IN  CASE op \in RROpcodes -> Plain(ExecRR(s, iw0))
          [] op = 62 -> [s |-> s, skip |-> BitAnd(iw0 % 256, s.F[0]) = 0]
          [] op = 63 -> [s |-> s, skip |-> BitAnd(iw0 % 256, s.F[0]) # 0]
          [] op >= 64 /\ (op - 64) \in LoadOps ->
                Plain(ExecLoad(s, iw0, seg, rmx, LoadKind(op - 64)))
          [] op = 65 ->
                Plain(SetR(s, rr_reg_d(iw0),
                           gen_offset_rmx(s, seg, rr_reg_r(iw0), rmx_reg_x(iw1),
                                          rmx_idx_i(iw1))))
          [] op >= 64 /\ (op - 64) \in StoreOps ->
                Plain(ExecStore(s, iw0, seg, rmx, StoreKind(op - 64)))
          [] op = 95 -> Plain(ExecBAL_RMX(s, iw0, iw1))
          [] op >= 96 /\ (op - 96) \in LoadOps ->
                Plain(ExecLoad(s, iw0, seg, rm, LoadKind(op - 96)))
          [] op = 97 ->
                Plain(SetR(s, rr_reg_d(iw0),
                           gen_offset_rm(s, seg, rr_reg_r(iw0), iw1)))
          [] op >= 96 /\ (op - 96) \in StoreOps ->
                Plain(ExecStore(s, iw0, seg, rm, StoreKind(op - 96)))
          [] op = 127 -> Plain(ExecBAL_RM(s, iw0, iw1))
          [] OTHER -> Plain(app_fault(s, 65535, ILLEGAL_INSTRUCTION))

-----------------------------------------------------------------------------
(* SeriesQ::new and the host's wiring before run() *)

Regs == 0..15
Channels == 0..(NumChannels - 1)
Lines == 0..(NumLines - 1)
\* the channels a peripheral thread holds a clone of
Attached == 0..(NumPeripherals - 1)

NoTrace == [faults |-> <<>>, plsets |-> <<>>, busOps |-> 0]

EmptyBus == [base |-> <<>>, size |-> <<>>, region |-> <<>>]

SeriesQ_new(bus) ==
    [R |-> [i \in Regs |-> WZero],
     S_selector |-> [i \in Regs |-> 0],
     S_base |-> [i \in Regs |-> WZero],
     S_limit |-> [i \in Regs |-> WMax],
     S_key |-> [i \in Regs |-> 255],
     S_flags |-> [i \in Regs |-> IF i = 7 THEN 0 ELSE IF i = 15 THEN 240 ELSE 255],
     MPK |-> [i \in Regs |-> 255],
     F |-> [i \in Regs |-> 254],
     SDTR_base |-> WZero,
     SDTR_len |-> 0,
     PEBA_base |-> WZero,
     PLBA_base |-> WZero,
     running |-> FALSE,
     cycles |-> 0,
     bus |-> bus,
     ipl |-> [i \in Lines |-> FALSE],
     icode |-> [i \in Lines |-> 0],
     trace |-> NoTrace]

\* a Vec<u8> of n zero bytes with the bytes of seq bs stored from offset at
Zeros(n) == [i \in 1..n |-> 0]
Poke(mem, at, bs) ==
    [i \in 1..Len(mem) |->
        IF i > at /\ i <= at + Len(bs) THEN bs[i - at] ELSE mem[i]]

\* the bytes of an instruction word as the fetch expects them (big-endian)
IBytes(iw) == <<iw \div 256, iw % 256>>
\* the bytes of a u32 as write_w stores them (little-endian)
LBytes(w) == <<WByte(w, 0), WByte(w, 1), WByte(w, 2), WByte(w, 3)>>

-----------------------------------------------------------------------------
(* The CPU thread: SeriesQ::run *)

NONE == <<"none", 0>>
CPU == <<"cpu", 0>>
PER(c) == <<"per", c>>

\* a half-word fetch that steps the PC over a half-word it could not read
FetchRead_AdvancesOnError(r, addr) ==
    IF r.err # "Ok"
    THEN [ok |-> FALSE, iw |-> 0,
          s |-> read_fault([r.s EXCEPT !.R[PC] = WAdd(@, W(2))], 65535, addr)]
    ELSE [ok |-> TRUE, iw |-> r.val, s |-> [r.s EXCEPT !.R[PC] = WAdd(@, W(2))]]

\* one half-word of the instruction fetch, given the result r of its bus read
FetchRead(r, addr) ==
    IF r.err # "Ok"
    THEN [ok |-> FALSE, iw |-> 0, s |-> read_fault(r.s, 65535, addr)]
    ELSE [ok |-> TRUE, iw |-> r.val, s |-> [r.s EXCEPT !.R[PC] = WAdd(@, W(2))]]

FetchAt(s, addr) ==
    IF access_check(s, PS, addr, FALSE, TRUE)
    THEN CHOOSE h \in {FetchRead(r, addr) : r \in {Cpu_read_h_big(s, addr)}} : TRUE
    ELSE [ok |-> FALSE, iw |-> 0, s |-> seg_fault(s, 65535, addr)]

\* one half-word of the instruction fetch; [ok, iw, s]
FetchHalf(s) ==
    CHOOSE h \in {FetchAt(s, addr) : addr \in {WAdd(s.R[PC], s.S_base[PS])}} : TRUE

\* the rest of the fetch after its first half-word h0
FetchRest(h0) ==
    IF h0.ok /\ increment(h0.iw) >= 4
    THEN LET h1 == FetchHalf(h0.s)
         IN  [ifetch |-> h1.ok, iword0 |-> h0.iw, iword1 |-> h1.iw, s |-> h1.s]
    ELSE [ifetch |-> h0.ok, iword0 |-> h0.iw, iword1 |-> 0, s |-> h0.s]

\* [ifetch, iword0, iword1, s]
Fetch(s) ==
    CHOOSE f \in {FetchRest(h0) : h0 \in {FetchHalf(s)}} : TRUE

\* the index the service-interrupts loop ends with: the highest pending line
HighestPending(s) ==
    LET pend == {i \in Lines : s.ipl[i]}
    IN  IF pend = {} THEN 0 ELSE CHOOSE i \in pend : \A j \in pend : j <= i

\* an interrupt phase that enters the highest pending level without pl_esc
ServiceInterrupts_Unconditional(s) ==
    LET new_pl == HighestPending(s)
    IN  pl_set(s, new_pl, s.icode[new_pl])

ServiceInterrupts(s) ==
    LET new_pl == HighestPending(s)
    IN  pl_esc(s, new_pl, s.icode[new_pl]).s

\* the next channel at or after c that a peripheral shares, else NumChannels
NextAttached(c) ==
    LET later == {k \in Attached : k >= c}
    IN  IF later = {} THEN NumChannels ELSE CHOOSE k \in later : \A j \in later : k <= j

\* run(): lock the bus, reset cycles, store running = true
CpuStart ==
    /\ pcCpu = "start"
    /\ busOwner = NONE
    /\ busOwner' = CPU
    /\ sq' = [sq EXCEPT !.cycles = 0, !.running = TRUE]
    /\ pcCpu' = "loop"
    /\ UNCHANGED <<skip, iword0, iword1, ifetch, chanIdx, brq, bgr, rlock, glock,
                   perPc, hist>>
    /\ UNCHANGED memVars

\* a loop head that leaves the zero register as the last cycle left it
CpuLoop_KeepsR0 ==
    /\ pcCpu = "loop"
    /\ IF sq.running
       THEN /\ sq' = [sq EXCEPT !.trace = NoTrace]
            /\ pcCpu' = "fetch"
       ELSE /\ sq' = sq
            /\ pcCpu' = "stopped"
    /\ UNCHANGED <<skip, iword0, iword1, ifetch, chanIdx, chanVars, hist>>
    /\ UNCHANGED memVars

\* the while test and the clearing of the zero register
CpuLoop ==
    /\ pcCpu = "loop"
    /\ IF sq.running
       THEN /\ sq' = [sq EXCEPT !.R[0] = WZero, !.trace = NoTrace]
            /\ pcCpu' = "fetch"
       ELSE /\ sq' = sq
            /\ pcCpu' = "stopped"
    /\ UNCHANGED <<skip, iword0, iword1, ifetch, chanIdx, chanVars, hist>>
    /\ UNCHANGED memVars

CpuFetch ==
    /\ pcCpu = "fetch"
    /\ \E f \in {Fetch(sq)} :
           /\ sq' = f.s
           /\ iword0' = f.iword0
           /\ iword1' = f.iword1
           /\ ifetch' = f.ifetch
    /\ pcCpu' = "exec"
    /\ UNCHANGED <<skip, chanIdx, chanVars, hist>>
    /\ UNCHANGED memVars

\* an execute step whose suppressed cycle leaves the skip latch set
CpuExec_KeepsLatch ==
    /\ pcCpu = "exec"
    /\ IF ifetch /\ ~skip
       THEN \E e \in {Execute(sq, iword0, iword1)} :
                sq' = e.s /\ skip' = e.skip
       ELSE sq' = sq /\ skip' = skip
    /\ pcCpu' = "intr"
    /\ UNCHANGED <<iword0, iword1, ifetch, chanIdx, chanVars, hist>>
    /\ UNCHANGED memVars

CpuExec ==
    /\ pcCpu = "exec"
    /\ IF ifetch /\ ~skip
       THEN \E e \in {Execute(sq, iword0, iword1)} :
                sq' = e.s /\ skip' = e.skip
       ELSE sq' = sq /\ skip' = FALSE
    /\ pcCpu' = "intr"
    /\ UNCHANGED <<iword0, iword1, ifetch, chanIdx, chanVars, hist>>
    /\ UNCHANGED memVars

CpuIntr ==
    /\ pcCpu = "intr"
    /\ sq' = ServiceInterrupts(sq)
    /\ pcCpu' = "dma"
    /\ chanIdx' = NextAttached(0)
    /\ UNCHANGED <<skip, iword0, iword1, ifetch, chanVars, hist>>
    /\ UNCHANGED memVars

\* a service-DMA step that calls open() without drop(held_bus)
CpuCheckPending_KeepsBus ==
    /\ pcCpu = "dma"
    /\ chanIdx < NumChannels
    /\ rlock[chanIdx] = "none"
    /\ pcCpu' = IF brq[chanIdx] THEN "open1" ELSE "dma"
    /\ chanIdx' = IF brq[chanIdx] THEN chanIdx ELSE NextAttached(chanIdx + 1)
    /\ UNCHANGED <<sq, skip, iword0, iword1, ifetch, chanVars, hist>>
    /\ UNCHANGED memVars

\* service DMA: check_pending on the channel at chanIdx; drop the bus if set
CpuCheckPending ==
    /\ pcCpu = "dma"
    /\ chanIdx < NumChannels
    /\ rlock[chanIdx] = "none"
    /\ IF brq[chanIdx]
       THEN /\ busOwner' = NONE
            /\ pcCpu' = "open1"
            /\ chanIdx' = chanIdx
       ELSE /\ busOwner' = busOwner
            /\ pcCpu' = "dma"
            /\ chanIdx' = NextAttached(chanIdx + 1)
    /\ UNCHANGED <<sq, skip, iword0, iword1, ifetch, brq, bgr, rlock, glock,
                   perPc, hist>>
    /\ UNCHANGED memVars

\* an end of the iteration that counts only the cycles whose fetch succeeded
CpuEndCycle_CountsFetched ==
    /\ pcCpu = "dma"
    /\ chanIdx >= NumChannels
    /\ sq' = [sq EXCEPT !.cycles = IF ifetch THEN (@ + 1) % CycleModulus ELSE @]
    /\ pcCpu' = "loop"
    /\ UNCHANGED <<skip, iword0, iword1, ifetch, chanIdx, chanVars, hist>>
    /\ UNCHANGED memVars

\* the end of the iteration: cycles = cycles.wrapping_add(1)
CpuEndCycle ==
    /\ pcCpu = "dma"
    /\ chanIdx >= NumChannels
    /\ sq' = [sq EXCEPT !.cycles = (@ + 1) % CycleModulus]
    /\ pcCpu' = "loop"
    /\ UNCHANGED <<skip, iword0, iword1, ifetch, chanIdx, chanVars, hist>>
    /\ UNCHANGED memVars

-----------------------------------------------------------------------------
(* Channel::open, on the CPU thread, for the channel at chanIdx.  hist.ev  *)
(* lists, per channel, the handshake events since its last BRQ rise;       *)
(* hist.bodies counts the in_channel bodies run since its last BGR rise.   *)

Event(c, e) == [hist EXCEPT !.ev[c] = Append(@, e)]

\* assert BGR: lock glock, *gr = true, notify_one, drop
CpuOpenAssert ==
    /\ pcCpu = "open1"
    /\ glock[chanIdx] = "none"
    /\ bgr' = [bgr EXCEPT ![chanIdx] = TRUE]
    /\ perPc' = [perPc EXCEPT ![chanIdx] = IF @ = "waitG" THEN "lockG" ELSE @]
    /\ hist' = [Event(chanIdx, "BGR+") EXCEPT !.bodies[chanIdx] = 0,
                                              !.opens[chanIdx] = "open"]
    /\ pcCpu' = "open2"
    /\ UNCHANGED <<sq, skip, iword0, iword1, ifetch, chanIdx, busOwner, brq,
                   rlock, glock>>
    /\ UNCHANGED memVars

\* an open() that keeps the guard on rq while it waits for BRQ to fall
CpuOpenLockR_KeepsGuard ==
    /\ pcCpu = "open2"
    /\ rlock[chanIdx] = "none"
    /\ pcCpu' = IF brq[chanIdx] THEN "openWait" ELSE "open3"
    /\ rlock' = [rlock EXCEPT ![chanIdx] = "cpu"]
    /\ UNCHANGED <<sq, skip, iword0, iword1, ifetch, chanIdx, busOwner, brq, bgr,
                   glock, perPc, hist>>
    /\ UNCHANGED memVars

\* lock rlock (first, or again after a wake-up) and test *rq
CpuOpenLockR ==
    /\ pcCpu = "open2"
    /\ rlock[chanIdx] = "none"
    /\ IF brq[chanIdx]
       THEN /\ pcCpu' = "openWait"
            /\ rlock' = rlock
       ELSE /\ pcCpu' = "open3"
            /\ rlock' = [rlock EXCEPT ![chanIdx] = "cpu"]
    /\ UNCHANGED <<sq, skip, iword0, iword1, ifetch, chanIdx, busOwner, brq, bgr,
                   glock, perPc, hist>>
    /\ UNCHANGED memVars

\* rcvar.wait may return without a notification
CpuSpuriousWake ==
    /\ pcCpu = "openWait"
    /\ pcCpu' = "open2"
    /\ UNCHANGED <<sq, skip, iword0, iword1, ifetch, chanIdx, chanVars, hist>>
    /\ UNCHANGED memVars

\* release BGR: lock glock, *gr = false, drop; rq is dropped on return
CpuOpenRelease ==
    /\ pcCpu = "open3"
    /\ glock[chanIdx] = "none"
    /\ bgr' = [bgr EXCEPT ![chanIdx] = FALSE]
    /\ rlock' = [rlock EXCEPT ![chanIdx] = "none"]
    /\ hist' = [Event(chanIdx, "BGR-") EXCEPT !.opens[chanIdx] = "closed"]
    /\ pcCpu' = "reacq"
    /\ UNCHANGED <<sq, skip, iword0, iword1, ifetch, chanIdx, busOwner, brq,
                   glock, perPc>>
    /\ UNCHANGED memVars

\* a return to the poll loop that does not lock the bus again
CpuReacquire_NoLock ==
    /\ pcCpu = "reacq"
    /\ pcCpu' = "dma"
    /\ chanIdx' = NextAttached(chanIdx + 1)
    /\ UNCHANGED <<sq, skip, iword0, iword1, ifetch, busOwner, brq, bgr, rlock,
                   glock, perPc, hist>>
    /\ UNCHANGED memVars

\* held_bus = our_bus.lock(), then on to the next channel
CpuReacquire ==
    /\ pcCpu = "reacq"
    /\ busOwner = NONE
    /\ busOwner' = CPU
    /\ pcCpu' = "dma"
    /\ chanIdx' = NextAttached(chanIdx + 1)
    /\ UNCHANGED <<sq, skip, iword0, iword1, ifetch, brq, bgr, rlock, glock,
                   perPc, hist>>
    /\ UNCHANGED memVars

-----------------------------------------------------------------------------
(* Channel::in_channel, on the peripheral thread of channel c *)

\* assert BRQ: lock rlock, *rq = true, drop
PerAssert(c) ==
    /\ perPc[c] = "idle"
    /\ rlock[c] = "none"
    /\ brq' = [brq EXCEPT ![c] = TRUE]
    /\ perPc' = [perPc EXCEPT ![c] = "lockG"]
    /\ hist' = [hist EXCEPT !.ev[c] = <<"BRQ+">>]
    /\ UNCHANGED <<cpuVars, busOwner, bgr, rlock, glock>>
    /\ UNCHANGED memVars

\* lock glock (first, or again after a wake-up) and test *gr; gr is kept
PerLockG(c) ==
    /\ perPc[c] = "lockG"
    /\ glock[c] = "none"
    /\ IF bgr[c]
       THEN /\ perPc' = [perPc EXCEPT ![c] = "bus"]
            /\ glock' = [glock EXCEPT ![c] = "per"]
       ELSE /\ perPc' = [perPc EXCEPT ![c] = "waitG"]
            /\ glock' = glock
    /\ UNCHANGED <<cpuVars, busOwner, brq, bgr, rlock, hist>>
    /\ UNCHANGED memVars

\* gcvar.wait may return without a notification
PerSpuriousWake(c) ==
    /\ perPc[c] = "waitG"
    /\ perPc' = [perPc EXCEPT ![c] = "lockG"]
    /\ UNCHANGED <<cpuVars, busOwner, brq, bgr, rlock, glock, hist>>
    /\ UNCHANGED memVars

\* in_channel that takes the bus without waiting for the grant or the lock
PerAcquireBus_Unguarded(c) ==
    /\ perPc[c] \in {"lockG", "bus"}
    /\ busOwner' = PER(c)
    /\ perPc' = [perPc EXCEPT ![c] = "body"]
    /\ UNCHANGED <<cpuVars, brq, bgr, rlock, glock, hist>>
    /\ UNCHANGED memVars

\* self.bus.lock()
PerAcquireBus(c) ==
    /\ perPc[c] = "bus"
    /\ busOwner = NONE
    /\ busOwner' = PER(c)
    /\ perPc' = [perPc EXCEPT ![c] = "body"]
    /\ UNCHANGED <<cpuVars, brq, bgr, rlock, glock, hist>>
    /\ UNCHANGED memVars

\* f(&mut *bus) and drop(bus); the peripheral's f reads the byte at DmaAddr
DmaAddr == W(0)

PerBody(c) ==
    /\ perPc[c] = "body"
    /\ LET r == Bus_read_b(sq.bus, DmaAddr)
       IN  /\ sq' = [sq EXCEPT !.bus = r.bus]
           /\ hist' = [Event(c, "BUS") EXCEPT
                          !.bodies[c] = IF @ < MaxBodies THEN @ + 1 ELSE @,
                          !.result[c] = r.val]
    /\ busOwner' = NONE
    /\ perPc' = [perPc EXCEPT ![c] = "release"]
    /\ UNCHANGED <<pcCpu, skip, iword0, iword1, ifetch, chanIdx, brq, bgr, rlock,
                   glock>>
    /\ UNCHANGED memVars

\* release BRQ: lock rlock, *rq = false, notify_one, drop
PerRelease(c) ==
    /\ perPc[c] = "release"
    /\ rlock[c] = "none"
    /\ brq' = [brq EXCEPT ![c] = FALSE]
    /\ pcCpu' = IF pcCpu = "openWait" /\ chanIdx = c THEN "open2" ELSE pcCpu
    /\ perPc' = [perPc EXCEPT ![c] = "ret"]
    /\ hist' = Event(c, "BRQ-")
    /\ UNCHANGED <<sq, skip, iword0, iword1, ifetch, chanIdx, busOwner, bgr,
                   rlock, glock>>
    /\ UNCHANGED memVars

\* return result: the guard gr taken in PerLockG is dropped here
PerReturn(c) ==
    /\ perPc[c] = "ret"
    /\ glock' = [glock EXCEPT ![c] = "none"]
    /\ perPc' = [perPc EXCEPT ![c] = "idle"]
    /\ UNCHANGED <<cpuVars, busOwner, brq, bgr, rlock, hist>>
    /\ UNCHANGED memVars

-----------------------------------------------------------------------------
(* A peripheral raising its interrupt line (main.rs: Port::flag) *)

IntLines == {4, 6}

PeripheralInterrupt(i) ==
    /\ ~sq.ipl[i]
    /\ pcCpu = "intr"
    /\ sq' = [sq EXCEPT !.ipl[i] = TRUE]
    /\ UNCHANGED <<pcCpu, skip, iword0, iword1, ifetch, chanIdx, chanVars, hist>>
    /\ UNCHANGED memVars

-----------------------------------------------------------------------------
(* The bus-grant handshake: the CPU runs a branch-to-self program while    *)
(* NumPeripherals peripheral threads call in_channel again and again.      *)

NoHist ==
    [ev |-> [c \in Attached |-> <<>>],
     bodies |-> [c \in Attached |-> 0],
     opens |-> [c \in Attached |-> "never"],
     result |-> [c \in Attached |-> 0]]

\* B 0 at address 0 (BAL r0, PS:0), then zero bytes
LoopImage == Poke(Zeros(8), 0, IBytes(32512) \o IBytes(28672))

ChanBus == Bus_attach(EmptyBus, WZero, Len32(LoopImage), LoopImage)

\* no call of the ALU functions on their own has been made
NoAluCall ==
    [op |-> "none", dest |-> <<0, 0>>, src |-> <<0, 0>>, flags |-> 0,
     use_carry |-> FALSE, y |-> <<0, 0>>, new_flags |-> 0]

InitThreads ==
    /\ pcCpu = "start"
    /\ skip = FALSE
    /\ iword0 = 0
    /\ iword1 = 0
    /\ ifetch = FALSE
    /\ chanIdx = 0
    /\ busOwner = NONE
    /\ brq = [c \in Channels |-> FALSE]
    /\ bgr = [c \in Channels |-> FALSE]
    /\ rlock = [c \in Channels |-> "none"]
    /\ glock = [c \in Channels |-> "none"]
    /\ perPc = [c \in Attached |-> "idle"]
    /\ hist = NoHist
    /\ stopReq = "none"
    /\ aluCall = NoAluCall

\* no Memory32 call has been made on the stand-alone device
NoCall ==
    [op |-> "none", addr |-> WZero, data |-> WZero, err |-> "Ok", val |-> WZero,
     before |-> <<>>, n |-> 0]

\* the machine under run() has its memory on the bus, not stand-alone
InitNoDevice ==
    /\ dev = <<>>
    /\ devCall = NoCall

\* the host makes no call on a bus of its own
NoBusCall == [op |-> "none", addr |-> WZero, data |-> WZero, err |-> "Ok",
              val |-> WZero, before |-> EmptyBus]

InitNoHostBus ==
    /\ hostBus = EmptyBus
    /\ busCall = NoBusCall

InitChan ==
    /\ sq = SeriesQ_new(ChanBus)
    /\ InitThreads
    /\ InitNoDevice
    /\ InitNoHostBus

CpuThread ==
    \/ CpuStart
    \/ CpuLoop
    \/ CpuFetch
    \/ CpuExec
    \/ CpuIntr
    \/ CpuCheckPending
    \/ CpuEndCycle

CpuOpen ==
    \/ CpuOpenAssert
    \/ CpuOpenLockR
    \/ CpuOpenRelease
    \/ CpuReacquire

PerThread(c) ==
    \/ PerLockG(c)
    \/ PerAcquireBus(c)
    \/ PerBody(c)
    \/ PerRelease(c)
    \/ PerReturn(c)

NextChan ==
    \/ CpuThread
    \/ CpuOpen
    \/ CpuSpuriousWake
    \/ \E c \in Attached : PerAssert(c)
    \/ \E c \in Attached : PerThread(c)
    \/ \E c \in Attached : PerSpuriousWake(c)

SpecChan == InitChan /\ [][NextChan]_vars

\* every thread that can take a step eventually takes one; a thread that
\* finds a mutex free again and again eventually gets it
SpecChanFair ==
    /\ InitChan
    /\ [][NextChan]_vars
    /\ SF_vars(CpuThread)
    /\ SF_vars(CpuOpen)
    /\ \A c \in Attached : SF_vars(PerThread(c))

-----------------------------------------------------------------------------
(* Properties of the handshake *)

IsPrefix(a, b) == Len(a) <= Len(b) /\ \A i \in 1..Len(a) : a[i] = b[i]

HandshakeEvents == <<"BRQ+", "BGR+", "BUS", "BRQ-", "BGR-">>

\* the positions of run() at which the CPU thread holds held_bus
CpuHolding == {"loop", "fetch", "exec", "intr", "dma"}

\* C1: for every channel, the events since the BRQ rise of the current
\* in_channel invocation follow the order BRQ rise, BGR rise, body with the
\* bus, BRQ fall, BGR fall.
C1_HandshakeOrder ==
    \A c \in Attached : IsPrefix(hist.ev[c], HandshakeEvents)

\* C2: at most one thread is inside the bus: no two peripheral bodies at
\* once, and no peripheral body while the CPU is at a position of its loop
\* where it holds the bus.
C2_BusExclusive ==
    /\ \A c, d \in Attached :
          perPc[c] = "body" /\ perPc[d] = "body" => c = d
    /\ \A c \in Attached :
          perPc[c] = "body" => busOwner = PER(c) /\ pcCpu \notin CpuHolding
    /\ pcCpu \in CpuHolding => busOwner = CPU

\* a peripheral body runs while another peripheral's request is pending
C2_Witness ==
    \E c, d \in Attached :
        c # d /\ perPc[c] = "body" /\ brq[d] /\ pcCpu = "openWait"

\* C3: while the BGR flag of any channel is true the CPU thread does not
\* hold the bus lock.
C3_GrantMeansReleased ==
    \A c \in Channels : bgr[c] => busOwner # CPU /\ pcCpu \notin CpuHolding

\* BGR is up and the peripheral of that channel is running its body
C3_Witness ==
    \E c \in Attached : bgr[c] /\ perPc[c] = "body" /\ busOwner = PER(c)

\* C4: between a BGR rise and the BGR fall that follows it the peripheral of
\* the channel runs exactly one body: never more than one, and one by the
\* time BGR falls.
C4_OneBodyPerOpen ==
    \A c \in Attached :
        /\ hist.bodies[c] <= 1
        /\ hist.opens[c] = "closed" => hist.bodies[c] = 1

\* C5: a channel whose BRQ is up is granted, and every in_channel call
\* returns.
C5_GrantedAndReturns ==
    \A c \in Attached :
        /\ (brq[c] /\ ~bgr[c]) ~> bgr[c]
        /\ (perPc[c] # "idle") ~> (perPc[c] = "idle")

-----------------------------------------------------------------------------
(* The CPU alone: one instruction under test on a machine the host has set *)
(* up, with two peripherals that raise interrupt lines.                    *)

\* the host's memory map: code, data, descriptor table, handlers, entry
\* blocks and link blocks
Layout ==
    [code |-> 0, data |-> 16, sdt |-> 32, handlers |-> 80, peb |-> 128,
     plb |-> 256, size |-> 384]

Fill(n, b) == [i \in 1..n |-> b]
RECURSIVE Flatten(_)
Flatten(ss) == IF ss = <<>> THEN <<>> ELSE Head(ss) \o Flatten(Tail(ss))

\* a 12-byte segment descriptor: base, limit, key, flags, padding
Descriptor(base, limit, key, flags) ==
    LBytes(W(base)) \o LBytes(W(limit)) \o <<key, flags, 0, 0>>

\* descriptor 0 and 1 start with the words SSDTR loads into PEBA and PLBA
DescriptorTable ==
    Descriptor(Layout.peb, Layout.plb, 255, 224)
    \o Descriptor(Layout.plb, Layout.size, 255, 192)
    \o Descriptor(Layout.data, Layout.sdt, 255, 128)
    \o Descriptor(Layout.data, Layout.data + 8, 14, 192)

\* the entry block of level l: PS base, PS limit, key/flags/sr8/selector, PC;
\* sr8 is 0x7E as in the host's entry block
EntryBlock(l) ==
    LBytes(W(0)) \o LBytes(W(Layout.size)) \o <<255, 224, 126, 0>>
    \o LBytes(W(Layout.handlers + 4 * l))

TestImage(iw0, iw1) ==
    LET m0 == Zeros(Layout.size)
        m1 == Poke(m0, Layout.code, IBytes(iw0) \o IBytes(iw1) \o Fill(12, 255))
        m2 == Poke(m1, Layout.data, [i \in 1..16 |-> 159 + i])
        m3 == Poke(m2, Layout.sdt, DescriptorTable)
        m4 == Poke(m3, Layout.handlers, Fill(48, 255))
    IN  Poke(m4, Layout.peb, Flatten([l \in 1..8 |-> EntryBlock(l - 1)]))

\* the data-segment settings the host gives S[1] and S[9]
SegProfiles ==
    [open |-> [base |-> WZero, limit |-> WMax, key |-> 255, flags |-> 255],
     window |-> [base |-> W(Layout.data), limit |-> W(Layout.sdt), key |-> 255,
                 flags |-> 192],
     readonly |-> [base |-> W(Layout.data), limit |-> W(Layout.sdt), key |-> 255,
                   flags |-> 128],
     locked |-> [base |-> W(Layout.data), limit |-> W(Layout.sdt), key |-> 14,
                 flags |-> 192]]

SetSegment(s, i, p) ==
    [s EXCEPT !.S_base[i] = p.base, !.S_limit[i] = p.limit, !.S_key[i] = p.key,
              !.S_flags[i] = p.flags]

\* the machine run() starts on for configuration cfg: the registers as the
\* host sets them through the struct's pub fields before run()
Machine(cfg) ==
    LET image == TestImage(cfg.iw0, cfg.iw1)
        s0 == SeriesQ_new(Bus_attach(EmptyBus, WZero, Len32(image), image))
        s1 == SetSegment(SetSegment(s0, 1, SegProfiles[cfg.prof]), 9,
                         SegProfiles[cfg.prof])
    IN  [s1 EXCEPT !.F[8] = cfg.f8,
                   !.S_flags[PS] = 224,
                   !.S_limit[PS] = cfg.pslimit,
                   !.R[1] = W(cfg.r1),
                   !.R[2] = W(2),
                   !.R[3] = <<4660, 34243>>,
                   !.R[9] = W(1),
                   !.SDTR_base = W(Layout.sdt),
                   !.SDTR_len = 3,
                   !.PEBA_base = W(cfg.peba),
                   !.PLBA_base = W(cfg.plba)]

\* instruction words: the first half-word, and the RM / RMX second half-word
IW(op, d, r) == op * 256 + d * 16 + r
RM(seg, idx) == seg * 4096 + idx
RMX(seg, x, idx) == seg * 4096 + x * 256 + idx

\* the all-ones word, an illegal instruction the host uses to force a halt
Halt == H - 1

\* register-register instructions under test
RRWords ==
    {IW(0, 3, 1), IW(1, 3, 5), IW(8, 3, 1), IW(9, 3, 1), IW(10, 3, 1),
     IW(24, 3, 2), IW(32, 3, 1), IW(34, 3, 8), IW(36, 3, 4), IW(37, 1, 2),
     IW(38, 3, 1), IW(40, 3, 1), IW(41, 3, 2), IW(62, 0, 1), IW(63, 0, 2),
     IW(0, 0, 3), IW(1, 0, 5), IW(8, 0, 3), IW(62, 0, 2), IW(63, 0, 1)}
    \cup {IW(35, d, r) : d \in {0, 8, 9, 12}, r \in {0, 2, 3, 9}}
    \cup {IW(39, d, r) : d \in {1, 9}, r \in {2, 3, 10}}
    \cup {IW(42, d, r) : d \in {1, 7, 9}, r \in {1, 7}}
    \cup {IW(43, d, r) : d \in {1, 9}, r \in {2, 3, 4, 5}}
    \cup {IW(48, 0, 0), Halt}

\* loads, LA and stores in both forms through S[1], and a few through S[9]
MemWords ==
    {<<IW(64 + n, 3, 1), RMX(1, 0, 0)>> : n \in LoadOps \cup StoreOps \cup {1}}
    \cup {<<IW(96 + n, 3, 1), RM(1, 0)>> : n \in LoadOps \cup StoreOps \cup {1}}
    \cup {<<IW(64 + n, 3, 1), RMX(9, 2, 2)>> : n \in {0, 8}}
    \cup {<<IW(96 + n, 3, 1), RM(9, 4)>> : n \in {0, 8}}
    \cup {<<IW(64, 0, 1), RMX(1, 0, 0)>>}

BalWords ==
    {<<IW(95, d, 1), RMX(1, 0, 0)>> : d \in {0, 4}}
    \cup {<<IW(127, d, 1), RM(1, 0)>> : d \in {0, 4}}
    \cup {<<IW(95, 1, 1), RMX(1, 0, 0)>>, <<IW(95, 4, 1), RMX(1, 4, 0)>>,
          <<IW(95, 4, 1), RMX(LS, 0, 0)>>, <<IW(127, 4, 1), RM(LS, 0)>>}

\* F[8] as the host may set it: supervisor at levels 7, 0 and 2, application
\* at level 0 (fault levels 0 and 3) and at level 7
F8Values == {254, 0, 4, 1, 49, 15}

\* an address no device is attached at
Unmapped == 4 * 256

\* an entry-block base whose level-7 block has only its first word in memory
LastWordPeb == Layout.size - 4 - 16 * 7

Cfg(f8, prof, r1, plba, peba, iw0, iw1) ==
    [f8 |-> f8, prof |-> prof, r1 |-> r1, plba |-> plba, peba |-> peba,
     iw0 |-> iw0, iw1 |-> iw1, pslimit |-> WMax]

\* a program segment that ends after the first half-word of the program
ShortCode(cfg) == [cfg EXCEPT !.pslimit = W(2)]

Configs ==
    {Cfg(f8, "window", 16, Layout.plb, Layout.peb, iw, Halt) :
        f8 \in F8Values, iw \in RRWords}
    \cup {Cfg(f8, prof, r1, Layout.plb, Layout.peb, w[1], w[2]) :
        f8 \in {254, 0, 1}, prof \in DOMAIN SegProfiles, r1 \in {0, 14, 16, 382},
        w \in MemWords}
    \cup {Cfg(f8, prof, 8, Layout.plb, Layout.peb, w[1], w[2]) :
        f8 \in {254, 0, 1}, prof \in {"open", "readonly"}, w \in BalWords}
    \cup {Cfg(f8, "window", 16, plba, peba, w[1], w[2]) :
        f8 \in F8Values, plba \in {Layout.plb, Unmapped},
        peba \in {Layout.peb, Unmapped, LastWordPeb},
        w \in {<<Halt, Halt>>, <<IW(96, 3, 1), RM(1, 0)>>,
               <<IW(0, 3, 1), IW(0, 3, 1)>>, <<IW(62, 0, 1), IW(72, 3, 1)>>,
               <<IW(63, 0, 2), IW(8, 3, 2)>>, <<IW(37, 1, 2), Halt>>}}
    \cup {ShortCode(Cfg(f8, "window", 16, Layout.plb, Layout.peb, w[1], w[2])) :
        f8 \in {254, 1, 49},
        w \in {<<Halt, Halt>>, <<IW(96, 3, 1), RM(1, 0)>>, <<IW(0, 3, 1), Halt>>}}

InitCpu ==
    /\ \E cfg \in Configs : sq = Machine(cfg)
    /\ InitThreads
    /\ InitNoDevice
    /\ InitNoHostBus

NextCpu ==
    \/ CpuThread
    \/ \E i \in IntLines : PeripheralInterrupt(i)

SpecCpu == InitCpu /\ [][NextCpu]_vars

-----------------------------------------------------------------------------
(* Properties of the CPU *)

\* the CPU is about to execute the instruction iword0, iword1
ExecStep == pcCpu = "exec" /\ ifetch /\ ~skip

\* the cycle's execute step has run the instruction iword0, iword1
Executed == pcCpu = "intr" /\ ifetch /\ sq.trace.plsets = <<>>

Faults(s) == {s.trace.faults[i] : i \in 1..Len(s.trace.faults)}
Raised(s, code) == \E f \in Faults(s) : f.code = code
FaultAddr(s) == WBytes(s.F[12], s.F[13], s.F[14], s.F[15])
SegOf(s, i) ==
    <<s.S_selector[i], s.S_base[i], s.S_limit[i], s.S_key[i], s.S_flags[i]>>

\* C6: in application state an SF to a flag register 8..15 raises
\* SUPERVISOR_ACCESS and leaves F[8..15] as they were (F[10] and F[11], which
\* fault entry sets to the instruction word, aside).
C6_SFProtected ==
    [][ExecStep /\ Opcode(iword0) = 35 /\ AppState(sq) /\ rr_reg_d(iword0) >= 8
        => /\ \A k \in {8, 9, 12, 13, 14, 15} : sq'.F[k] = sq.F[k]
           /\ Raised(sq', SUPERVISOR_ACCESS)]_vars

\* C7: no step taken in application state changes a segment register 8..15;
\* SSEL, SSELHC and CSEL to a segment register 8..15 raise SUPERVISOR_ACCESS
\* and leave every segment register but PS's selector, every R and the MPK
\* as they were; BAL changes no segment register other than PS and LS.
C7_SegmentsProtected ==
    [][AppState(sq)
        => /\ \A i \in 8..15 : SegOf(sq', i) = SegOf(sq, i)
           /\ ExecStep /\ Opcode(iword0) \in {39, 42, 43} /\ rr_reg_d(iword0) >= 8
                => /\ Raised(sq', SUPERVISOR_ACCESS)
                   /\ \A i \in Regs \ {PS} : SegOf(sq', i) = SegOf(sq, i)
                   /\ sq'.R = sq.R /\ sq'.MPK = sq.MPK /\ sq'.bus = sq.bus
           /\ ExecStep /\ Opcode(iword0) \in {95, 127}
                => \A i \in Regs \ {PS, LS} : SegOf(sq', i) = SegOf(sq, i)]_vars

\* application state, CSEL from PS to a differing segment register 8..15
\* has just been refused
C7_Witness ==
    /\ Executed /\ AppState(sq)
    /\ Opcode(iword0) = 42 /\ rr_reg_d(iword0) >= 8
    /\ SegOf(sq, rr_reg_d(iword0)) # SegOf(sq, rr_reg_r(iword0))
    /\ Raised(sq, SUPERVISOR_ACCESS)

IsMemOp(iw0) ==
    LET op == Opcode(iw0)
    IN  \/ op >= 64 /\ op < 96 /\ (op - 64) \in LoadOps \cup StoreOps
        \/ op >= 96 /\ (op - 96) \in LoadOps \cup StoreOps

EffAddr(s, iw0, iw1) ==
    IF Opcode(iw0) < 96
    THEN gen_addr_rmx(s, rm_seg_s(iw1), rr_reg_r(iw0), rmx_reg_x(iw1), rmx_idx_i(iw1))
    ELSE gen_addr_rm(s, rm_seg_s(iw1), rr_reg_r(iw0), iw1)

\* C8: a load or store whose effective address is at or beyond the limit of
\* its segment raises SEGMENTATION_FAULT, and nothing else, with the address
\* in F[12..15]; it makes no bus access and changes no R.
C8_BeyondLimitFaults ==
    [][ExecStep /\ IsMemOp(iword0)
        /\ WGe(EffAddr(sq, iword0, iword1), sq.S_limit[rm_seg_s(iword1)])
        => /\ Len(sq'.trace.faults) = 1
           /\ Raised(sq', SEGMENTATION_FAULT)
           /\ FaultAddr(sq') = EffAddr(sq, iword0, iword1)
           /\ sq'.trace.busOps = sq.trace.busOps
           /\ sq'.bus = sq.bus
           /\ sq'.R = sq.R]_vars

\* supervisor state, key held, all permissions: the access beyond the limit
\* has faulted all the same
C8_Witness ==
    /\ Executed /\ IsMemOp(iword0) /\ ~AppState(sq)
    /\ Raised(sq, SEGMENTATION_FAULT)
    /\ WGe(FaultAddr(sq), sq.S_limit[rm_seg_s(iword1)])
    /\ WGe(FaultAddr(sq), sq.S_base[rm_seg_s(iword1)])

AccessKinds == {<<FALSE, FALSE>>, <<TRUE, FALSE>>, <<FALSE, TRUE>>}

SampleAddrs(s) ==
    {W(Layout.data - 1), W(Layout.data), W(Layout.sdt - 1), W(Layout.sdt), WMax,
     s.R[PC]}

\* the segment registers the configurations and the instructions under test
\* set apart, and one of those left as new() made them
SampleSegments == {0, 1, LS, PS, 9, 15}

Mapped(s, seg, a) ==
    /\ WGe(a, s.S_base[seg])
    /\ WLt(a, s.S_limit[seg])
    /\ s.S_key[seg] \in {s.MPK[k] : k \in Regs} \/ ~AppState(s)

Permitted(s, seg, kind) ==
    LET mask == IF kind[1] THEN 64 ELSE IF kind[2] THEN 32 ELSE 128
    IN  (s.S_flags[seg] \div mask) % 2 = 1

\* C9: access_check is true exactly when the address is within base and
\* limit, the key is in the MPK or the state is supervisor, and the state is
\* supervisor or the permission bit of the requested kind is set.
C9_AccessCheck ==
    \A seg \in SampleSegments, a \in SampleAddrs(sq), kind \in AccessKinds :
        access_check(sq, seg, a, kind[1], kind[2])
            <=> Mapped(sq, seg, a) /\ (~AppState(sq) \/ Permitted(sq, seg, kind))

\* application state: a store within a mapped read-only segment has been
\* refused though a read of the same address is allowed
C9_Witness ==
    /\ Executed /\ IsMemOp(iword0) /\ AppState(sq)
    /\ Raised(sq, SEGMENTATION_FAULT)
    /\ Mapped(sq, rm_seg_s(iword1), FaultAddr(sq))
    /\ ~access_check(sq, rm_seg_s(iword1), FaultAddr(sq), TRUE, FALSE)
    /\ access_check(sq, rm_seg_s(iword1), FaultAddr(sq), FALSE, FALSE)

\* the faults the step from sq to sq' has added to the cycle's trace
NewFaults ==
    {sq'.trace.faults[i] : i \in (Len(sq.trace.faults) + 1)..Len(sq'.trace.faults)}

C11_FaultLevelLine ==
    [][\A f \in NewFaults :
          f.kind = "app" /\ f.level < 7
          => /\ sq'.ipl[(f.f8 \div 16) % 8]
             /\ sq'.icode[(f.f8 \div 16) % 8] = f.code]_vars

\* an application fault at level 0 whose F[8] bits 4..6 name line 3
C11_Witness ==
    \E f \in Faults(sq) :
        /\ f.kind = "app" /\ f.level = 0 /\ (f.f8 \div 16) % 8 = 3
        /\ sq.ipl[3] /\ sq.icode[3] = f.code
        /\ ~sq.ipl[0]

\* C11 as first stated: the line set pending by an application fault below
\* level 7 is the one whose index is F[8] bits 1..3.
C11_CurrentLevelLine ==
    [][\A f \in NewFaults :
          f.kind = "app" /\ f.level < 7
          => /\ sq'.ipl[(f.f8 \div 2) % 8]
             /\ sq'.icode[(f.f8 \div 2) % 8] = f.code]_vars

\* C12: a fault raised below priority level 7, an application fault
\* included, leaves running as it was; only a fault raised at level 7 clears
\* it.
C12_AppFaultKeepsRunning ==
    [][\A f \in NewFaults :
          f.level < 7 => sq'.running = sq.running]_vars

\* C13: at the end of a cycle in which the CPU detected a fault, either
\* running is false or a pl_set to a level above the level of every fault of
\* the cycle has run to its end (PS and PC loaded from that level's entry
\* block), so that the next fetch is not from the faulting context.
C13_FaultsEscalateOrHalt ==
    [][pcCpu = "intr" /\ pcCpu' = "dma" /\ Faults(sq') # {}
        => \/ ~sq'.running
           \/ \E j \in 1..Len(sq'.trace.plsets) :
                 /\ \A f \in Faults(sq') :
                       f.after < j /\ f.level < sq'.trace.plsets[j][1]
                 /\ CurLevel(sq') = sq'.trace.plsets[j][1]]_vars

\* the highest index among the pending interrupt lines is i
HighestLine(s, i) == s.ipl[i] /\ \A j \in Lines : s.ipl[j] => j <= i

\* C14: the interrupt phase runs pl_set(i, icode[i]), once, exactly when a
\* line is pending and the highest pending index i is above the current
\* priority level; when it does not, the phase leaves the whole CPU
\* (registers, flags, segments, lines, bus memory) as it was.
C14_InterruptPhase ==
    [][pcCpu = "intr" /\ pcCpu' = "dma"
        => /\ \A i \in Lines :
                 HighestLine(sq, i) /\ i > CurLevel(sq)
                 => sq'.trace.plsets = Append(sq.trace.plsets, <<i, sq.icode[i]>>)
           /\ (\A i \in Lines : HighestLine(sq, i) => i <= CurLevel(sq))
                 => sq' = sq]_vars

\* a peripheral raised line 6 below level 6 and the interrupt phase has run
\* pl_set(6, icode[6])
C14_Witness ==
    /\ pcCpu = "dma"
    /\ sq.ipl[6] /\ ~sq.ipl[7]
    /\ sq.trace.plsets = <<<<6, sq.icode[6]>>>>
    /\ CurLevel(sq) = 6

\* a peripheral raised line 4 at level 7 and the interrupt phase has run no
\* pl_set
C14_NotAccepted ==
    /\ pcCpu = "dma"
    /\ sq.ipl[4] /\ ~sq.ipl[6] /\ ~sq.ipl[7]
    /\ CurLevel(sq) = 7
    /\ sq.trace.plsets = <<>>

\* C15: when the interrupt phase accepts line i (pl_esc returns true) and
\* the pl_set raises no fault, the pending flag of line i is false
\* afterwards.
C15_AcceptedLineCleared ==
    [][pcCpu = "intr" /\ pcCpu' = "dma" /\ NewFaults = {}
        => \A i \in Lines :
              HighestLine(sq, i) /\ i > CurLevel(sq) => ~sq'.ipl[i]]_vars

\* the little-endian word the bus memory of s holds at address a
MemByte(s, a) == Bus_read_b(s.bus, a).val
MemWord(s, a) ==
    WBytes(MemByte(s, a), MemByte(s, WAdd(a, W(1))), MemByte(s, WAdd(a, W(2))),
           MemByte(s, WAdd(a, W(3))))

\* the interrupt phase has just run one pl_set, without a fault
PlSetDone == pcCpu = "intr" /\ pcCpu' = "dma" /\ NewFaults = {}
             /\ Len(sq'.trace.plsets) = Len(sq.trace.plsets) + 1

\* C16: after a pl_set(L, sel) whose eight bus accesses succeed, the link
\* block at PLBA_base + 16*L holds the PS base, PS limit, packed word and PC
\* of the state before the call; PS base, limit, key, flags and PC equal the
\* fields of the entry block at PEBA_base + 16*L; F[8] bits 1..3 are L and
\* S_selector[PS] is sel.
C16_PlSetEffect ==
    [][PlSetDone
        => LET L == sq'.trace.plsets[Len(sq'.trace.plsets)][1]
               sel == sq'.trace.plsets[Len(sq'.trace.plsets)][2]
               lb(k) == WAdd(sq.PLBA_base, W(16 * L + 4 * k))
               eb(k) == WAdd(sq.PEBA_base, W(16 * L + 4 * k))
           IN  /\ MemWord(sq', lb(0)) = sq.S_base[PS]
               /\ MemWord(sq', lb(1)) = sq.S_limit[PS]
               /\ MemWord(sq', lb(2))
                     = WBytes(sq.S_key[PS], sq.S_flags[PS], sq.F[8], sq.S_selector[PS])
               /\ MemWord(sq', lb(3)) = sq.R[PC]
               /\ sq'.S_base[PS] = MemWord(sq', eb(0))
               /\ sq'.S_limit[PS] = MemWord(sq', eb(1))
               /\ sq'.S_key[PS] = WByte(MemWord(sq', eb(2)), 0)
               /\ sq'.S_flags[PS] = WByte(MemWord(sq', eb(2)), 1)
               /\ sq'.R[PC] = MemWord(sq', eb(3))
               /\ CurLevel(sq') = L
               /\ sq'.S_selector[PS] = sel]_vars

\* selector bytes pl_set is tried with
SampleSelectors == {0, READ_FAULT}

\* the link block and the entry block of level L do not overlap
BlocksApart(s, L) ==
    \/ WInt(s.PLBA_base) + 16 <= WInt(s.PEBA_base)
    \/ WInt(s.PEBA_base) + 16 <= WInt(s.PLBA_base)

\* the PS context and PC that pl_set saves and pl_retn restores
PsContext(s) ==
    <<s.S_base[PS], s.S_limit[PS], s.S_key[PS], s.S_flags[PS], s.S_selector[PS],
      s.F[8], s.R[PC]>>

\* C17: from every state the CPU reaches before its interrupt phase, for
\* every level L and selector sel, when the link and entry blocks accept all
\* accesses and do not overlap, pl_set(L, sel) followed by pl_retn leaves PS
\* base, limit, key, flags, selector, F[8] and PC as they were.
C17_SetThenReturn ==
    pcCpu = "intr"
    => \A L \in Lines, sel \in SampleSelectors :
          LET s2 == pl_retn(pl_set(sq, L, sel))
          IN  s2.trace.faults = sq.trace.faults /\ BlocksApart(sq, L)
              => PsContext(s2) = PsContext(sq)

-----------------------------------------------------------------------------
(* The reference memory device on its own: a Vec<u8> of DevLen bytes on    *)
(* which a caller makes up to MaxCalls Memory32 calls.                     *)

\* length of the device
DevLen == 8
\* number of calls made on the device
MaxCalls == 2

DevImages == {Zeros(DevLen), [i \in 1..DevLen |-> 159 + i]}
\* device-relative addresses, in range and just beyond it
DevAddrs == {W(a) : a \in 0..(DevLen + 2)}
DevBytes == {0, 90, 255}
DevHalves == {0, 4660, H - 1}
DevWords == {WZero, <<4660, 22136>>, <<32768, 1>>, WMax}

\* the call op(addr, data) with result r
DevCall(op, addr, data, r) ==
    /\ devCall.n < MaxCalls
    /\ dev' = r.mem
    /\ devCall' = [op |-> op, addr |-> addr, data |-> data, err |-> r.err,
                   val |-> r.val, before |-> dev, n |-> devCall.n + 1]
    /\ UNCHANGED <<cpuVars, chanVars, hist, hostBus, busCall, stopReq, aluCall>>

\* a result whose u8, u16 or unit value is kept as a u32
Widen(r) == [err |-> r.err, val |-> W(r.val), mem |-> r.mem]

Dev_read_b ==
    \E a \in DevAddrs : DevCall("read_b", a, WZero, Widen(Vec_read_b(dev, a)))
Dev_read_h ==
    \E a \in DevAddrs : DevCall("read_h", a, WZero, Widen(Vec_read_h(dev, a)))
Dev_read_w ==
    \E a \in DevAddrs : DevCall("read_w", a, WZero, Vec_read_w(dev, a))
Dev_write_b ==
    \E a \in DevAddrs, d \in DevBytes :
        DevCall("write_b", a, W(d), Widen(Vec_write_b(dev, a, d)))
Dev_write_h ==
    \E a \in DevAddrs, d \in DevHalves :
        DevCall("write_h", a, W(d), Widen(Vec_write_h(dev, a, d)))
Dev_write_w ==
    \E a \in DevAddrs, d \in DevWords :
        DevCall("write_w", a, d, Widen(Vec_write_w(dev, a, d)))

InitMem ==
    /\ sq = SeriesQ_new(EmptyBus)
    /\ InitThreads
    /\ dev \in DevImages
    /\ devCall = NoCall
    /\ InitNoHostBus

NextMem ==
    \/ Dev_read_b
    \/ Dev_read_h
    \/ Dev_read_w
    \/ Dev_write_b
    \/ Dev_write_h
    \/ Dev_write_w

SpecMem == InitMem /\ [][NextMem]_vars

-----------------------------------------------------------------------------
(* Properties of the memory device *)

\* the last call was op and it succeeded / failed
Did(name) == devCall.op = name /\ devCall.err = "Ok"
Failed == devCall.op # "none" /\ devCall.err # "Ok"
\* the address of the last call as an integer, and the byte at offset k of it
\* before the call
CallAddr == WInt(devCall.addr)
Before(k) == devCall.before[CallAddr + k + 1]

\* C18: after a successful write_w(a, w) at an a divisible by 4, read_b(a+k)
\* returns (w >> 8k) & 0xFF for k = 0..3 and no byte outside a..a+3 has
\* changed.
C18_WordWriteByteReads ==
    Did("write_w") /\ CallAddr % 4 = 0
    => /\ \A k \in 0..3 :
             LET r == Vec_read_b(dev, W(CallAddr + k))
             IN  r.err = "Ok" /\ r.val = WByte(devCall.data, k)
       /\ Len(dev) = Len(devCall.before)
       /\ \A i \in 1..Len(dev) :
             i <= CallAddr \/ i > CallAddr + 4 => dev[i] = devCall.before[i]

\* write_w(4, 0x12345678) has succeeded on the non-zero image
C18_Witness ==
    /\ Did("write_w") /\ CallAddr = 4 /\ devCall.data = <<4660, 22136>>
    /\ dev[5] = 120 /\ dev[8] = 18 /\ dev[1] = 160

\* C19: a successful read_w(a) returns mem[a] | mem[a+1]<<8 | mem[a+2]<<16 |
\* mem[a+3]<<24 and a successful read_h(a) returns mem[a] | mem[a+1]<<8;
\* read_w(a) after write_w(a, w) returns w and read_h(a) after write_h(a, h)
\* returns h.
C19_LittleEndianReads ==
    /\ Did("read_w") => devCall.val = WBytes(Before(0), Before(1), Before(2), Before(3))
    /\ Did("read_h") => devCall.val = W(Before(0) + 256 * Before(1))
    /\ Did("write_w") => Vec_read_w(dev, devCall.addr).val = devCall.data
    /\ Did("write_h") => W(Vec_read_h(dev, devCall.addr).val) = devCall.data

\* the last call was a half access at an odd address or a word access at
\* an address not divisible by 4
Misaligned ==
    \/ devCall.op \in {"read_h", "write_h"} /\ CallAddr % 2 # 0
    \/ devCall.op \in {"read_w", "write_w"} /\ CallAddr % 4 # 0
\* the last byte of the access lies inside the device
Fits ==
    \/ devCall.op \in {"read_h", "write_h"} /\ CallAddr + 1 < Len(devCall.before)
    \/ devCall.op \in {"read_w", "write_w"} /\ CallAddr + 3 < Len(devCall.before)

\* C20 (amended): a misaligned half or word access whose last byte lies
\* inside the device returns AlignmentCheck; one whose last byte lies beyond
\* the device returns InvalidAddress, the range test coming first; and
\* every failed access leaves the device memory unchanged.
C20_AlignmentAfterRange ==
    /\ Misaligned /\ Fits => devCall.err = "AlignmentCheck"
    /\ Misaligned /\ ~Fits => devCall.err = "InvalidAddress"
    /\ Failed => dev = devCall.before

\* write_w at address 2 of the non-zero image has failed
C20_Witness ==
    /\ devCall.op = "write_w" /\ CallAddr = 2 /\ devCall.data = WMax
    /\ devCall.err = "AlignmentCheck"
    /\ dev = [i \in 1..DevLen |-> 159 + i]

\* C20 as first stated: every misaligned half or word access, at whatever
\* device-relative address, returns AlignmentCheck and leaves the memory
\* unchanged.
C20_MisalignedAlways ==
    Misaligned => devCall.err = "AlignmentCheck" /\ dev = devCall.before


-----------------------------------------------------------------------------
(* The bus on its own: the host attaches up to MaxRanges devices, each a   *)
(* Vec<u8> of its own, and then makes one Memory32 call on the bus.        *)

\* number of attach calls
MaxRanges == 2

\* bases: the bottom of the address space, inside the first range, and the
\* top eight bytes of the address space
TopBase == <<H - 1, H - 8>>
BusBases == {WZero, W(4), TopBase}
\* sizes: shorter than, and as long as, the longer device
BusSizes == {W(4), W(8)}
BusDevices == {Zeros(4), [i \in 1..8 |-> 159 + i]}
BusAddrs == {W(a) : a \in {0, 2, 3, 4, 6, 8, 12}} \cup {TopBase, <<H - 1, H - 4>>}

HostAttach ==
    /\ busCall.op = "none"
    /\ Len(hostBus.base) < MaxRanges
    /\ \E base \in BusBases, size \in BusSizes, region \in BusDevices :
           hostBus' = Bus_attach(hostBus, base, size, region)
    /\ UNCHANGED <<cpuVars, chanVars, hist, dev, devCall, busCall, stopReq,
                   aluCall>>

\* the call op(addr, data) with result r
BusCall(op, addr, data, r) ==
    /\ busCall.op = "none"
    /\ hostBus' = r.bus
    /\ busCall' = [op |-> op, addr |-> addr, data |-> data, err |-> r.err,
                   val |-> r.val, before |-> hostBus]
    /\ UNCHANGED <<cpuVars, chanVars, hist, dev, devCall, stopReq, aluCall>>

\* a bus result whose u8, u16 or unit value is kept as a u32
BWiden(r) == [err |-> r.err, val |-> W(r.val), bus |-> r.bus]

Host_read_b ==
    \E a \in BusAddrs : BusCall("read_b", a, WZero, BWiden(Bus_read_b(hostBus, a)))
Host_read_h ==
    \E a \in BusAddrs : BusCall("read_h", a, WZero, BWiden(Bus_read_h(hostBus, a)))
Host_read_w ==
    \E a \in BusAddrs : BusCall("read_w", a, WZero, Bus_read_w(hostBus, a))
Host_write_b ==
    \E a \in BusAddrs, d \in {90} :
        BusCall("write_b", a, W(d), BWiden(Bus_write_b(hostBus, a, d)))
Host_write_h ==
    \E a \in BusAddrs, d \in {4660} :
        BusCall("write_h", a, W(d), BWiden(Bus_write_h(hostBus, a, d)))
Host_write_w ==
    \E a \in BusAddrs, d \in {<<4660, 22136>>} :
        BusCall("write_w", a, d, BWiden(Bus_write_w(hostBus, a, d)))

InitBus ==
    /\ sq = SeriesQ_new(EmptyBus)
    /\ InitThreads
    /\ InitNoDevice
    /\ InitNoHostBus

NextBus ==
    \/ HostAttach
    \/ Host_read_b
    \/ Host_read_h
    \/ Host_read_w
    \/ Host_write_b
    \/ Host_write_h
    \/ Host_write_w

SpecBus == InitBus /\ [][NextBus]_vars

-----------------------------------------------------------------------------
(* Properties of the bus *)

\* range n of the bus holds address a: base <= a < base + size, the sum taken
\* in the integers
Covers(bus, n, a) ==
    /\ WGe(a, bus.base[n])
    /\ WLt(WSub(a, bus.base[n]), bus.size[n])

\* the first range in registration order that holds a, 0 when there is none
FirstCovering(bus, a) ==
    LET hits == {n \in 1..Len(bus.base) : Covers(bus, n, a)}
    IN  IF hits = {} THEN 0
        ELSE CHOOSE n \in hits : \A k \in hits : n <= k

\* the result of operation op made directly on the device mem
DevApply(op, mem, off, data) ==
    CASE op = "read_b"  -> Widen(Vec_read_b(mem, off))
      [] op = "read_h"  -> Widen(Vec_read_h(mem, off))
      [] op = "read_w"  -> Vec_read_w(mem, off)
      [] op = "write_b" -> Widen(Vec_write_b(mem, off, WInt(data)))
      [] op = "write_h" -> Widen(Vec_write_h(mem, off, WInt(data)))
      [] op = "write_w" -> Widen(Vec_write_w(mem, off, data))

\* the bus call went to range n with the device-relative address, gave the
\* device's result and touched no other device
ForwardedTo(n) ==
    LET b == busCall.before
        r == DevApply(busCall.op, b.region[n], WSub(busCall.addr, b.base[n]),
                      busCall.data)
    IN  /\ busCall.err = r.err
        /\ r.err = "Ok" => busCall.val = r.val
        /\ hostBus = [b EXCEPT !.region[n] = r.mem]

\* C21: each of the six bus operations at address a goes to the first
\* attached range, in registration order, with base <= a < base + size, with
\* the device-relative address a - base, and returns that device's result,
\* an error included; when no range holds a it returns InvalidAddress and
\* leaves every device alone.
C21_FirstRangeForwarding ==
    busCall.op # "none" =>
        LET n == FirstCovering(busCall.before, busCall.addr)
        IN  IF n = 0
            THEN busCall.err = "InvalidAddress" /\ hostBus = busCall.before
            ELSE ForwardedTo(n)

\* range n of the bus ends below the end of the address space
EndsBelowTop(bus, n) == WLt(bus.base[n], WAdd(bus.base[n], bus.size[n]))

\* the same for buses none of whose ranges reaches the end of the address
\* space (kept for comparison; it holds)
C21_BelowTopForwarding ==
    (\A n \in 1..Len(busCall.before.base) : EndsBelowTop(busCall.before, n))
        => C21_FirstRangeForwarding


-----------------------------------------------------------------------------
(* Properties of the run loop *)

\* C22: at the start of every instruction R[0] is 0, whatever the previous
\* cycle wrote to it and whether or not an interrupt or a channel was served.
C22_ZeroRegister ==
    (pcCpu = "fetch" \/ ExecStep) => sq.R[0] = WZero

\* the second instruction starts after MV R0, R3 has run with R3 nonzero
C22_Witness ==
    /\ pcCpu = "fetch"
    /\ sq.cycles = 1
    /\ ifetch
    /\ iword0 = IW(0, 0, 3)
    /\ sq.R[3] # WZero
    /\ sq.R[0] = WZero


\* the step that ends a loop iteration, and the step with which run() starts
IterationEnd == pcCpu = "dma" /\ pcCpu' = "loop"
RunStart == pcCpu = "start" /\ pcCpu' = "loop"

\* C23: every iteration of the fetch-execute loop, whatever happened in it,
\* adds exactly 1 to the cycle counter modulo its width, and no other step
\* after the reset in run() changes the counter.
C23_CycleCount ==
    [][/\ IterationEnd => sq'.cycles = (sq.cycles + 1) % CycleModulus
       /\ RunStart => sq'.cycles = 0
       /\ ~IterationEnd /\ ~RunStart => sq'.cycles = sq.cycles]_vars

\* the counter has wrapped to 0 at the end of an iteration whose fetch
\* faulted
C23_Witness ==
    /\ pcCpu = "loop"
    /\ sq.cycles = 0
    /\ ~ifetch
    /\ sq.trace.faults # <<>>


\* the execute step of IF (op 62) or IFN (op 63) on word iw sets the latch to
\* this value
LatchOf(iw, f0) ==
    IF Opcode(iw) = 62 THEN BitAnd(iw % 256, f0) = 0 ELSE BitAnd(iw % 256, f0) # 0

\* C24: IF with mask & F[0] = 0 and IFN with mask & F[0] # 0 set the skip
\* latch; the instruction fetched while the latch is set is fetched with the
\* usual checks, PC advancing by its encoded length, its execute step changes
\* nothing at all, and the latch is clear after that step.
C24_SkipLatch ==
    [][/\ (ExecStep /\ Opcode(iword0) \in {62, 63}) =>
              /\ skip' = LatchOf(iword0, sq.F[0])
              /\ sq' = sq
       /\ (pcCpu = "fetch" /\ skip) =>
              \E f \in {Fetch(sq)} :
                  /\ sq' = f.s /\ ifetch' = f.ifetch /\ iword0' = f.iword0
                  /\ f.ifetch =>
                         sq' = [sq EXCEPT !.R[PC] = WAdd(@, W(increment(f.iword0))),
                                          !.trace = f.s.trace]
       /\ (pcCpu = "exec" /\ skip) => sq' = sq /\ skip' = FALSE]_vars

\* a store fetched after IF set the latch has been suppressed: the cycle
\* raised no fault and wrote nothing, PC is past the four bytes of the store
C24_Witness ==
    /\ pcCpu = "intr"
    /\ sq.cycles = 1
    /\ ifetch
    /\ iword0 = IW(72, 3, 1)
    /\ ~skip
    /\ sq.trace.faults = <<>>
    /\ sq.R[PC] = W(Layout.code + 6)
    /\ sq.bus.region[1] = TestImage(IW(62, 0, 1), IW(72, 3, 1))


-----------------------------------------------------------------------------
(* Properties of the privileged instructions *)

\* LSDTR, SSDTR, LMPK, SMPK
TableOps == {36, 37, 40, 41}

\* the execute step of one of the table instructions in application state
AppTableStep == ExecStep /\ AppState(sq) /\ Opcode(iword0) \in TableOps

\* C25: LSDTR, SSDTR, LMPK and SMPK executed in application state raise
\* SUPERVISOR_ACCESS, leave the general registers, MPK, SDTR_base, SDTR_len,
\* PEBA_base and PLBA_base as they were, and make no bus access (the bus
\* accesses of a privilege-level change the fault causes apart).
C25_TableOpsSupervisorOnly ==
    [][AppTableStep =>
           /\ Len(sq'.trace.faults) = 1
           /\ sq'.trace.faults[1].code = SUPERVISOR_ACCESS
           /\ \A i \in Regs \ {PC} : sq'.R[i] = sq.R[i]
           /\ sq'.MPK = sq.MPK
           /\ sq'.SDTR_base = sq.SDTR_base
           /\ sq'.SDTR_len = sq.SDTR_len
           /\ sq'.PEBA_base = sq.PEBA_base
           /\ sq'.PLBA_base = sq.PLBA_base
           /\ sq'.trace.plsets = <<>> => sq'.trace.busOps = sq.trace.busOps]_vars

\* the same for LSDTR, LMPK and SMPK alone (kept for comparison; it holds)
C25_WithoutSSDTR ==
    [][AppTableStep /\ Opcode(iword0) # 37 =>
           /\ Len(sq'.trace.faults) = 1
           /\ sq'.trace.faults[1].code = SUPERVISOR_ACCESS
           /\ \A i \in Regs \ {PC} : sq'.R[i] = sq.R[i]
           /\ sq'.MPK = sq.MPK
           /\ sq'.SDTR_base = sq.SDTR_base /\ sq'.SDTR_len = sq.SDTR_len
           /\ sq'.PEBA_base = sq.PEBA_base /\ sq'.PLBA_base = sq.PLBA_base
           /\ sq'.trace.plsets = <<>> => sq'.trace.busOps = sq.trace.busOps]_vars


\* the selector SSEL (op 39) takes from R[r] and SSELHC (op 43) from the
\* instruction word
SelectorOf(s, iw) ==
    IF Opcode(iw) = 39 THEN s.R[rr_reg_r(iw)][2] % 256 ELSE rr_reg_r(iw)

\* the execute step of SSEL or SSELHC that passes the supervisor test, on a
\* segment register other than PS
SelStep ==
    /\ ExecStep
    /\ Opcode(iword0) \in {39, 43}
    /\ ~(AppState(sq) /\ rr_reg_d(iword0) >= 8)
    /\ rr_reg_d(iword0) # PS

\* segment register d is the same in s and t
SameSegment(s, t, d) ==
    /\ s.S_selector[d] = t.S_selector[d]
    /\ s.S_base[d] = t.S_base[d]
    /\ s.S_limit[d] = t.S_limit[d]
    /\ s.S_key[d] = t.S_key[d]
    /\ s.S_flags[d] = t.S_flags[d]

\* the step raises OUT_OF_BOUNDS, reads nothing and leaves the destination
\* segment register alone
Rejected ==
    /\ Len(sq'.trace.faults) = 1
    /\ sq'.trace.faults[1].code = OUT_OF_BOUNDS
    /\ sq'.trace.plsets = <<>> => sq'.trace.busOps = sq.trace.busOps
    /\ SameSegment(sq, sq', rr_reg_d(iword0))

\* C26: SSEL and SSELHC with a selector greater than or equal to SDTR_len
\* raise OUT_OF_BOUNDS, read nothing from the bus and leave the destination
\* segment register unchanged.
C26_SelectorBound ==
    [][SelStep /\ SelectorOf(sq, iword0) >= sq.SDTR_len => Rejected]_vars

\* the same for selectors greater than SDTR_len (kept for comparison; it
\* holds)
C26_SelectorAboveLen ==
    [][SelStep /\ SelectorOf(sq, iword0) > sq.SDTR_len => Rejected]_vars


-----------------------------------------------------------------------------
(* Properties of the fault registers *)

\* the opcodes the execute step decodes
Decoded ==
    RROpcodes \cup {62, 63, 65, 95, 97, 127}
    \cup {64 + n : n \in LoadOps \cup StoreOps}
    \cup {96 + n : n \in LoadOps \cup StoreOps}

\* the opcodes of the loads and stores, and the address such an instruction
\* accesses
MemOps == {b + n : b \in {64, 96}, n \in LoadOps \cup StoreOps}
EffectiveAddr(s, iw0, iw1) ==
    IF Opcode(iw0) < 96
    THEN gen_addr_rmx(s, rm_seg_s(iw1), rr_reg_r(iw0), rmx_reg_x(iw1), rmx_idx_i(iw1))
    ELSE gen_addr_rm(s, rm_seg_s(iw1), rr_reg_r(iw0), iw1)

\* the execute step raised a fault: F[10], F[11] hold the instruction word,
\* and after a segmentation, read or write fault of a load or store F[12..15]
\* hold the address it accessed
FaultRegistersSet ==
    /\ sq'.F[10] = iword0 % 256
    /\ sq'.F[11] = iword0 \div 256
    /\ (/\ Opcode(iword0) \in MemOps
        /\ sq'.trace.faults[1].code \in {SEGMENTATION_FAULT, READ_FAULT, WRITE_FAULT})
           => LET a == EffectiveAddr(sq, iword0, iword1)
              IN  /\ sq'.F[12] = a[2] % 256
                  /\ sq'.F[13] = a[2] \div 256
                  /\ sq'.F[14] = a[1] % 256
                  /\ sq'.F[15] = a[1] \div 256

\* C27: after any fault raised by an executing instruction, ILLEGAL_INSTRUCTION
\* included, F[10] and F[11] hold the low and high byte of the instruction's
\* first half-word; after a segmentation, read or write fault F[12..15] hold
\* the faulting address, least significant byte in F[12].
C27_FaultRegisters ==
    [][ExecStep /\ sq'.trace.faults # <<>> => FaultRegistersSet]_vars

\* the same for the instructions the execute step decodes (kept for
\* comparison; it holds)
C27_DecodedFaultRegisters ==
    [][ExecStep /\ sq'.trace.faults # <<>> /\ Opcode(iword0) \in Decoded
           => FaultRegistersSet]_vars


-----------------------------------------------------------------------------
(* More properties of the bus-grant handshake *)

\* the CPU is between the fetch and the end of the interrupt phase
InstructionPhase == pcCpu \in {"fetch", "exec", "intr"}

\* C28: between the fetch and the end of the interrupt phase of a cycle the
\* CPU holds the bus lock and no peripheral is in the body of in_channel; the
\* CPU gives the bus lock up only in the channel-poll phase.
C28_BodiesOnlyInPollPhase ==
    [][/\ InstructionPhase' =>
              /\ busOwner' = CPU
              /\ \A c \in Attached : perPc'[c] # "body"
       /\ (busOwner = CPU /\ busOwner' # CPU) => pcCpu = "dma"]_vars

\* the CPU executes an instruction while a peripheral has its request up and
\* waits for the grant, after an earlier grant has been served
C28_Witness ==
    /\ pcCpu = "exec"
    /\ busOwner = CPU
    /\ \E c \in Attached : brq[c] /\ perPc[c] \in {"lockG", "waitG"}
    /\ \E c \in Attached : hist.opens[c] = "closed"


-----------------------------------------------------------------------------
(* The skip latch and the program context *)

\* the cycle that ends here entered a handler: pl_set ran and raised no fault
HandlerEntered ==
    pcCpu = "loop" /\ sq.trace.plsets # <<>> /\ sq.trace.faults = <<>>

\* C29: the skip latch suppresses only the instruction that follows IF / IFN
\* in the same program context: when a cycle enters an interrupt or fault
\* handler the latch is clear at its end, so that the handler's first
\* instruction is executed.
C29_LatchStaysInContext ==
    HandlerEntered => ~skip


-----------------------------------------------------------------------------
(* Waiting in the handshake *)

\* the CPU, in open() on channel c or on its way back from it, cannot take a
\* step before the peripheral of c does: it waits for the guard on BGR that
\* the peripheral holds, for the fall of BRQ, or for the bus lock
CpuWaitsFor(c) ==
    \/ /\ chanIdx = c
       /\ \/ pcCpu \in {"open1", "open3"} /\ glock[c] = "per"
          \/ pcCpu = "openWait" /\ brq[c]
    \/ pcCpu = "reacq" /\ busOwner = PER(c)

\* the peripheral of c, in in_channel, cannot take a step before the CPU
\* does: it waits for the guard on BRQ that the CPU holds, for the rise of
\* BGR, or for the bus lock
PerWaitsForCpu(c) ==
    \/ perPc[c] = "release" /\ rlock[c] = "cpu"
    \/ perPc[c] = "waitG" /\ ~bgr[c]
    \/ perPc[c] = "bus" /\ busOwner = CPU

\* C30: the handshake never reaches a state in which the CPU, in open(), and
\* a peripheral, in in_channel, wait for each other on the BRQ guard, the BGR
\* guard or the bus lock.
C30_NoMutualWait ==
    \A c \in Attached : ~(CpuWaitsFor(c) /\ PerWaitsForCpu(c))

\* open() holds the guard on BRQ and waits for the guard on BGR, which the
\* peripheral still holds on its way out of in_channel
C30_Witness ==
    /\ pcCpu = "open3"
    /\ rlock[chanIdx] = "cpu"
    /\ glock[chanIdx] = "per"
    /\ perPc[chanIdx] = "ret"
    /\ CpuWaitsFor(chanIdx)


-----------------------------------------------------------------------------
(* Stopping the CPU: run() has spawned the CPU thread and returned, and    *)
(* the host stores running = false once, at any time from then on, while   *)
(* the peripherals go on calling in_channel.                               *)

\* running.store(false) by the host; stopReq tells whether the CPU thread
\* had made its own store of running = true by then
HostStop ==
    /\ stopReq = "none"
    /\ sq' = [sq EXCEPT !.running = FALSE]
    /\ stopReq' = IF pcCpu = "start" THEN "before" ELSE "after"
    /\ UNCHANGED <<pcCpu, skip, iword0, iword1, ifetch, chanIdx, chanVars, hist,
                   dev, devCall, hostBus, busCall, aluCall>>

NextStop ==
    \/ NextChan
    \/ HostStop

SpecStop == InitChan /\ [][NextStop]_vars

\* C31: once the host has stored running = false, at any time after run()
\* has returned, the flag stays false (the store is not overwritten by the
\* start-up of the CPU thread), so that the loop test ends the loop after the
\* cycle in progress.
C31_StopNotLost ==
    stopReq # "none" => ~sq.running

\* the same for a store made after the CPU thread's own store of running =
\* true (kept for comparison; it holds)
C31_LateStopNotLost ==
    stopReq = "after" => ~sq.running


-----------------------------------------------------------------------------
(* Properties of the loads and stores *)

\* the number of bytes the load or store with opcode op accesses
AccessWidth(op) ==
    LET n == op % 32
    IN  IF n \in {0, 8} THEN 4 ELSE IF n \in {3, 5, 7, 10} THEN 2 ELSE 1

\* byte k of the access of the instruction iw0, iw1 lies outside its segment
ByteOutside(s, iw0, iw1, k) ==
    LET a == WAdd(EffectiveAddr(s, iw0, iw1), W(k))
        seg == rm_seg_s(iw1)
    IN  WLt(a, s.S_base[seg]) \/ WGe(a, s.S_limit[seg])

\* the execute step of a load or store
MemStep == ExecStep /\ Opcode(iword0) \in MemOps

\* the step raised a fault and made no bus access
FaultedWithoutAccess ==
    /\ sq'.trace.faults # <<>>
    /\ sq'.trace.busOps = sq.trace.busOps
    /\ sq'.bus = sq.bus

C32_FirstByteInSegment ==
    [][(MemStep /\ ByteOutside(sq, iword0, iword1, 0))
           => FaultedWithoutAccess]_vars


-----------------------------------------------------------------------------
(* More properties of the priority-level engine *)

\* the execute step of this cycle raised one application fault, and the
\* interrupt phase now enters a handler for it with a pl_set that succeeds
AppFaultEntry ==
    /\ PlSetDone
    /\ Len(sq.trace.faults) = 1
    /\ sq.trace.faults[1].kind = "app"
    /\ sq.trace.plsets = <<>>
    /\ sq'.trace.plsets[1][2] = sq.trace.faults[1].code

\* C33: when a handler is entered because of an application fault, bits
\* 24..31 of the third word of the target level's link block hold the PS
\* selector the faulting program had before the fault.
C33_LinkKeepsProgramSelector ==
    [][AppFaultEntry
           => LET L == sq'.trace.plsets[1][1]
                  a == WAdd(sq.PLBA_base, W(16 * L + 8))
              IN  WByte(MemWord(sq', a), 3) = sq.trace.faults[1].ps_selector]_vars


\* the interrupt phase has just run one pl_set, one of whose bus accesses
\* failed
PlSetFailed ==
    /\ pcCpu = "intr" /\ pcCpu' = "dma"
    /\ Len(sq'.trace.plsets) = Len(sq.trace.plsets) + 1
    /\ NewFaults # {}

\* PS base, limit, key and flags, F[8] and PC
ProgramContext(s) ==
    <<s.S_base[PS], s.S_limit[PS], s.S_key[PS], s.S_flags[PS], s.F[8], s.R[PC]>>

\* C34: pl_set is all-or-nothing on the program context: when one of its bus
\* writes or reads fails, PS base, limit, key and flags, F[8] and PC keep the
\* values they had before the call.
C34_PlSetAllOrNothing ==
    [][PlSetFailed => ProgramContext(sq') = ProgramContext(sq)]_vars

\* the same when it is a write to the link block that fails (kept for
\* comparison; it holds)
C34_LinkFailureKeepsContext ==
    [][(PlSetFailed /\ \E f \in NewFaults : f.code = WRITE_FAULT)
           => ProgramContext(sq') = ProgramContext(sq)]_vars


\* the 16 bytes of the link block of level l, as memory holds them in s
LinkBlock(s, l) ==
    [k \in 0..15 |-> MemByte(s, WAdd(s.PLBA_base, W(16 * l + k)))]

\* the step is the interrupt phase of a cycle
InterruptPhase == pcCpu = "intr" /\ pcCpu' = "dma"

\* C35: interrupt and fault entry move the priority level only upwards:
\* pl_set runs only with a level above the current one, the level afterwards
\* is that level (or the old one when pl_set failed), and the link blocks of
\* the current level and of the levels below it are not written.
C35_EntryOnlyUpwards ==
    [][InterruptPhase =>
           /\ CurLevel(sq') >= CurLevel(sq)
           /\ sq'.trace.plsets # sq.trace.plsets =>
                  LET L == sq'.trace.plsets[Len(sq'.trace.plsets)][1]
                  IN  /\ Len(sq'.trace.plsets) = Len(sq.trace.plsets) + 1
                      /\ L > CurLevel(sq)
                      /\ CurLevel(sq') \in {L, CurLevel(sq)}
           /\ \A l \in 0..CurLevel(sq) : LinkBlock(sq', l) = LinkBlock(sq, l)]_vars

\* line 4 has been accepted at level 2: the level is 4 and the link block of
\* level 4 holds the F[8] of level 2
C35_Witness ==
    /\ pcCpu = "dma"
    /\ sq.trace.plsets = <<<<4, sq.icode[4]>>>>
    /\ sq.trace.faults = <<>>
    /\ CurLevel(sq) = 4
    /\ LinkBlock(sq, 4)[10] = 4


-----------------------------------------------------------------------------
(* Frame of a faulting load or store *)

\* the execute step raised a fault with one of these codes
StepRaised(codes) == \E f \in NewFaults : f.code \in codes

\* C36: a load that raises SEGMENTATION_FAULT or READ_FAULT leaves every
\* general register except PC as it was; a store that raises
\* SEGMENTATION_FAULT or WRITE_FAULT leaves every byte of every attached
\* device as it was.
C36_FaultingAccessFrame ==
    [][/\ (MemStep /\ (Opcode(iword0) % 32) \in LoadOps
               /\ StepRaised({SEGMENTATION_FAULT, READ_FAULT}))
          => \A i \in Regs \ {PC} : sq'.R[i] = sq.R[i]
       /\ (MemStep /\ (Opcode(iword0) % 32) \in StoreOps
               /\ StepRaised({SEGMENTATION_FAULT, WRITE_FAULT}))
          => sq'.bus.region = sq.bus.region]_vars

\* a word load into R3 has raised READ_FAULT and R3 still holds its value
C36_Witness ==
    /\ pcCpu = "intr"
    /\ ifetch
    /\ Opcode(iword0) \in {64, 96}
    /\ rr_reg_d(iword0) = 3
    /\ Len(sq.trace.faults) = 1
    /\ sq.trace.faults[1].code = READ_FAULT
    /\ sq.R[3] = <<4660, 34243>>

\* a word store has raised WRITE_FAULT
C36_StoreFaulted ==
    /\ pcCpu = "intr"
    /\ ifetch
    /\ Opcode(iword0) \in {72, 104}
    /\ Len(sq.trace.faults) = 1
    /\ sq.trace.faults[1].code = WRITE_FAULT


-----------------------------------------------------------------------------
(* The state new() builds *)

\* F[8] as new() leaves it: supervisor state, priority level 7
NewF8 == SeriesQ_new(EmptyBus).F[8]

\* C37: a CPU built by new() starts with F[8] = 0xFE, supervisor state at
\* priority level 7; as long as F[8] holds that value no step of the CPU
\* runs pl_set (no pending line is accepted, no handler is entered) and every
\* step that raises a fault clears running.
C37_StartsAtLevelSeven ==
    [][/\ NewF8 = 254
       /\ sq.F[8] = NewF8 =>
              /\ Len(sq'.trace.plsets) <= Len(sq.trace.plsets)
              /\ NewFaults # {} => ~sq'.running]_vars

\* line 6 is pending after the interrupt phase of a CPU still at F[8] = 0xFE,
\* and no handler has been entered
C37_Witness ==
    /\ pcCpu = "dma"
    /\ sq.F[8] = NewF8
    /\ sq.ipl[6]
    /\ sq.trace.plsets = <<>>
    /\ sq.running

\* a CPU still at F[8] = 0xFE has raised a fault and stopped
C37_FaultStops ==
    /\ pcCpu = "intr"
    /\ sq.F[8] = NewF8
    /\ sq.trace.faults # <<>>
    /\ sq.trace.plsets = <<>>
    /\ ~sq.running


-----------------------------------------------------------------------------
(* Properties of BAL *)

\* the execute step of BAL in its RMX (op 95) or RM (op 127) form
BalStep == ExecStep /\ Opcode(iword0) \in {95, 127}

\* the five fields of segment register i in s
Segment(s, i) ==
    <<s.S_selector[i], s.S_base[i], s.S_limit[i], s.S_key[i], s.S_flags[i]>>

\* the branch target: the offset-only RM / RMX address evaluated in s
BalTarget(s, iw0, iw1) ==
    IF Opcode(iw0) = 95
    THEN gen_offset_rmx(s, rm_seg_s(iw1), rr_reg_r(iw0), rmx_reg_x(iw1),
                        rmx_idx_i(iw1))
    ELSE gen_offset_rm(s, rm_seg_s(iw1), rr_reg_r(iw0), iw1)

\* what BAL is to leave behind, all of it taken from the state before the
\* instruction
BalEffect ==
    /\ rr_reg_d(iword0) # 0 =>
           /\ Segment(sq', LS) = Segment(sq, PS)
           /\ sq'.R[rr_reg_d(iword0)] = sq.R[PC]
    /\ Segment(sq', PS) = Segment(sq, rm_seg_s(iword1))
    /\ sq'.R[PC] = BalTarget(sq, iword0, iword1)

\* C38: BAL in both forms: with reg_d # 0, LS afterwards holds the five
\* fields PS had before and R[reg_d] the address of the next instruction; in
\* every case PS afterwards holds what segment seg_s held before and PC the
\* offset-only address computed from the operand registers as they were
\* before, for every choice of reg_d, reg_r, reg_x and seg_s.
C38_BranchAndLink ==
    [][BalStep => BalEffect]_vars

\* the link register is also an operand register, or the target segment is LS
BalAliased ==
    /\ rr_reg_d(iword0) # 0
    /\ \/ rr_reg_d(iword0) \in {rr_reg_r(iword0), PC}
       \/ Opcode(iword0) = 95 /\ rr_reg_d(iword0) = rmx_reg_x(iword1)
       \/ rm_seg_s(iword1) = LS

\* the same when the link does not touch an operand of the branch (kept for
\* comparison; it holds)
C38_UnaliasedBranchAndLink ==
    [][BalStep /\ ~BalAliased => BalEffect]_vars


-----------------------------------------------------------------------------
(* The ALU on its own: alu_add and alu_sub called on sample operands, with  *)
(* the incoming C flag clear and set, with and without use_carry.          *)

\* operands: around 0, around the sign change and around the wrap; the last
\* is the largest quick operand
AluWords ==
    {WZero, W(1), <<0, H - 1>>, <<H \div 2 - 1, H - 1>>, <<H \div 2, 0>>,
     <<H - 1, H - 2>>, WMax, W(15)}

\* incoming flag bytes: C clear, only C set, all but B set
AluFlags == {0, 4, 254}

AluCall(op, dest, src, flags, use_carry, r) ==
    /\ aluCall' = [op |-> op, dest |-> dest, src |-> src, flags |-> flags,
                   use_carry |-> use_carry, y |-> r[1], new_flags |-> r[2]]
    /\ UNCHANGED <<cpuVars, chanVars, hist, dev, devCall, hostBus, busCall,
                   stopReq>>

Alu_add ==
    \E dest \in AluWords, src \in AluWords, flags \in AluFlags, c \in BOOLEAN :
        AluCall("add", dest, src, flags, c, alu_add(dest, src, flags, c))

Alu_sub ==
    \E dest \in AluWords, src \in AluWords, flags \in AluFlags, c \in BOOLEAN :
        AluCall("sub", dest, src, flags, c, alu_sub(dest, src, flags, c))

InitAlu ==
    /\ sq = SeriesQ_new(EmptyBus)
    /\ InitThreads
    /\ InitNoDevice
    /\ InitNoHostBus

NextAlu ==
    \/ Alu_add
    \/ Alu_sub

SpecAlu == InitAlu /\ [][NextAlu]_vars

\* the carry the call takes in
CarryIn == IF aluCall.use_carry /\ Bit(aluCall.flags, 2) # 0 THEN 1 ELSE 0

\* dest + src + carry_in in the integers, as <<carry out, high half, low
\* half>>
WideSum ==
    LET lo == aluCall.dest[2] + aluCall.src[2] + CarryIn
        hi == aluCall.dest[1] + aluCall.src[1] + lo \div H
    IN  <<hi \div H, hi % H, lo % H>>

\* dest - src - carry_in in the integers is below 0
Borrows ==
    \/ WLt(aluCall.dest, aluCall.src)
    \/ aluCall.dest = aluCall.src /\ CarryIn = 1

\* C39: for add and subtract with carry, for all operands and both values of
\* the incoming C flag, the resulting C flag is 1 exactly when dest + src +
\* carry_in >= 2^32 (add), or dest - src - carry_in < 0 (subtract), and the
\* result is the 32-bit wrapped sum or difference.
C39_CarryOut ==
    /\ aluCall.op = "add" =>
           /\ aluCall.y = <<WideSum[2], WideSum[3]>>
           /\ Bit(aluCall.new_flags, 2) = WideSum[1]
    /\ aluCall.op = "sub" =>
           /\ aluCall.y = WSub(WSub(aluCall.dest, aluCall.src), W(CarryIn))
           /\ (Bit(aluCall.new_flags, 2) = 1) = Borrows

\* the same for the calls that take no carry in (kept for comparison; it
\* holds)
C39_CarryOutWithoutCarryIn ==
    CarryIn = 0 => C39_CarryOut


-----------------------------------------------------------------------------
(* Faults of the instruction fetch *)

\* the fetch step that ends with ifetch = false
FetchFailed == pcCpu = "fetch" /\ ~ifetch'

\* address of the first half-word of the fetch about to be made
FirstHalfAddr == WAdd(sq.R[PC], sq.S_base[PS])

\* the first half-word of the fetch about to be made passes the access check
\* and is read from the bus
FirstHalfFetched ==
    /\ access_check(sq, PS, FirstHalfAddr, FALSE, TRUE)
    /\ Cpu_read_h_big(sq, FirstHalfAddr).err = "Ok"

\* address of the half-word whose fetch fails, in a fetch that fails
FailedHalfAddr ==
    IF FirstHalfFetched THEN WAdd(FirstHalfAddr, W(2)) ELSE FirstHalfAddr

\* C40: if the access check or the bus read of either half-word fails during
\* the fetch, the PC is not advanced past the half-word whose fetch failed,
\* one fault is raised with the fetch address S_base[PS] + PC in F[12..15],
\* SEGMENTATION_FAULT for a failed access check and READ_FAULT for a bus
\* error, and no instruction is executed in that cycle.
C40_FetchFault ==
    [][/\ FetchFailed =>
              /\ sq'.R[PC] = IF FirstHalfFetched
                             THEN WAdd(sq.R[PC], W(2)) ELSE sq.R[PC]
              /\ \A r \in Regs \ {PC} : sq'.R[r] = sq.R[r]
              /\ FaultAddr(sq') = FailedHalfAddr
              /\ Cardinality(NewFaults) = 1
              /\ StepRaised({IF access_check(sq, PS, FailedHalfAddr, FALSE, TRUE)
                             THEN READ_FAULT ELSE SEGMENTATION_FAULT})
       /\ pcCpu = "exec" /\ ~ifetch => sq' = sq]_vars

\* the cycle whose fetch failed at the second half-word of an instruction
C40_Witness ==
    /\ pcCpu = "intr"
    /\ ~ifetch
    /\ increment(iword0) >= 4
    /\ Faults(sq) # {}

\* the fetch never fails on a bus error (kept to show the READ_FAULT case of
\* the property happens; it is violated)
C40_NoFetchReadFault ==
    ~(pcCpu = "exec" /\ ~ifetch /\ Raised(sq, READ_FAULT))

=============================================================================
